---- MODULE Spec2Model ----
(***************************************************************************)
(* A model of the gpt-cleaner rule engine (app/rule_engine.py), its token  *)
(* ledger (table token_mappings of app/db.py) and the secret primitives of *)
(* app/security.py.  Texts are sequences of one-character strings, so that *)
(* matching, formatting, case folding and the token recognizer are         *)
(* computed character by character as the code computes them.              *)
(***************************************************************************)
EXTENDS Integers, Sequences, FiniteSets, TLC

(***************************************************************************)
(* Characters.                                                             *)
(***************************************************************************)
UpperSeq == <<"A","B","C","D","E","F","G","H","I","J","K","L","M",
              "N","O","P","Q","R","S","T","U","V","W","X","Y","Z">>
LowerSeq == <<"a","b","c","d","e","f","g","h","i","j","k","l","m",
              "n","o","p","q","r","s","t","u","v","w","x","y","z">>
DigitSeq == <<"0","1","2","3","4","5","6","7","8","9">>

UpperChars == {UpperSeq[i] : i \in 1..26}
LowerChars == {LowerSeq[i] : i \in 1..26}
DigitChars == {DigitSeq[i] : i \in 1..10}
AlnumChars == UpperChars \cup LowerChars \cup DigitChars
\* \w of the re module, on the ASCII characters of the model
WordChars == AlnumChars \cup {"_"}
\* str.strip() with no argument strips whitespace
SpaceChars == {" "}
\* [A-Z0-9_] of the token grammar
TokenClass == UpperChars \cup DigitChars \cup {"_"}

\* The printable ASCII characters, code 32 first (the double quote, the
\* backslash and the backtick stand under a name: no text of the model
\* holds them).
AsciiTable ==
  <<" ","!","DQUOTE","#","$","%","&","'","(",")","*","+",",","-",".","/",
    "0","1","2","3","4","5","6","7","8","9",":",";","<","=",">","?",
    "@","A","B","C","D","E","F","G","H","I","J","K","L","M","N","O",
    "P","Q","R","S","T","U","V","W","X","Y","Z","[","BSLASH","]","^","_",
    "BTICK","a","b","c","d","e","f","g","h","i","j","k","l","m","n","o",
    "p","q","r","s","t","u","v","w","x","y","z","{","|","}","~">>

FoldMap == [c \in UpperChars |-> LowerSeq[CHOOSE i \in 1..26 : UpperSeq[i] = c]]
UpMap == [c \in LowerChars |-> UpperSeq[CHOOSE i \in 1..26 : LowerSeq[i] = c]]

\* str.casefold() / str.upper() on one ASCII character
FoldChar(c) == IF c \in UpperChars THEN FoldMap[c] ELSE c
UpperChar(c) == IF c \in LowerChars THEN UpMap[c] ELSE c

casefold(s) == [i \in 1..Len(s) |-> FoldChar(s[i])]
upper(s) == [i \in 1..Len(s) |-> UpperChar(s[i])]

\* str.strip(): drop the leading and the trailing whitespace
RECURSIVE lstrip(_)
lstrip(s) == IF s # <<>> /\ Head(s) \in SpaceChars THEN lstrip(Tail(s)) ELSE s
RECURSIVE rstrip(_)
rstrip(s) ==
  IF s # <<>> /\ s[Len(s)] \in SpaceChars THEN rstrip(SubSeq(s, 1, Len(s) - 1)) ELSE s
strip(s) == rstrip(lstrip(s))

\* s[i:j] of Python on 0-based offsets i <= j
Slice(s, i, j) == SubSeq(s, i + 1, j)

\* the 0-based offsets at which sub occurs in s
OccursAt(s, sub, i) ==
  /\ i + Len(sub) <= Len(s)
  /\ \A k \in 1..Len(sub) : s[i + k] = sub[k]

(***************************************************************************)
(* app/security.py                                                         *)
(***************************************************************************)
\* hashlib.sha256(secret).digest(): the key stream.  The model keeps a short
\* stand-in for the 32 digest bytes; _xor_bytes cycles through it.
KeyBytes == <<23, 142, 77>>

RECURSIVE XorInt(_, _)
XorInt(a, b) ==
  IF a = 0 THEN b
  ELSE IF b = 0 THEN a
  ELSE (((a % 2) + (b % 2)) % 2) + 2 * XorInt(a \div 2, b \div 2)

\* str.encode("utf-8") / bytes.decode("utf-8") on the ASCII characters
Ord(c) == 31 + (CHOOSE i \in 1..Len(AsciiTable) : AsciiTable[i] = c)
Chr(n) == IF n \in 32..126 THEN AsciiTable[n - 31] ELSE "?"

xor_bytes_wrong_key(data, key) ==
  [idx \in 1..Len(data) |-> XorInt(data[idx], key[(idx % Len(key)) + 1])]
xor_bytes(data, key) ==
  [idx \in 1..Len(data) |-> XorInt(data[idx], key[((idx - 1) % Len(key)) + 1])]

\* base64.urlsafe_b64encode / urlsafe_b64decode: an injective ASCII encoding
\* of the bytes and its inverse.  The model writes each byte as two
\* characters of a 16-character alphabet instead of 4 characters per 3 bytes.
B16Seq == <<"0","1","2","3","4","5","6","7","8","9","A","B","C","D","E","F">>
B16Value(c) == (CHOOSE i \in 1..16 : B16Seq[i] = c) - 1
b64encode(bytes) ==
  [i \in 1..(2 * Len(bytes)) |->
     IF i % 2 = 1 THEN B16Seq[(bytes[(i + 1) \div 2] \div 16) + 1]
     ELSE B16Seq[(bytes[i \div 2] % 16) + 1]]
b64decode(text) ==
  [i \in 1..(Len(text) \div 2) |-> 16 * B16Value(text[2 * i - 1]) + B16Value(text[2 * i])]

encrypt_value(plain_text) ==
  LET raw == [i \in 1..Len(plain_text) |-> Ord(plain_text[i])]
  IN  b64encode(xor_bytes(raw, KeyBytes))
decrypt_value_wrong_key(cipher_text) ==
  LET decrypted == xor_bytes_wrong_key(b64decode(cipher_text), KeyBytes)
  IN  [i \in 1..Len(decrypted) |-> Chr(decrypted[i])]
decrypt_value(cipher_text) ==
  LET decrypted == xor_bytes(b64decode(cipher_text), KeyBytes)
  IN  [i \in 1..Len(decrypted) |-> Chr(decrypted[i])]

\* simple_encrypt: f"ENC[{encrypted}]"
simple_encrypt(value) == <<"E","N","C","[">> \o encrypt_value(value) \o <<"]">>

\* deterministic_anagram: a permutation of the characters fixed by (value,
\* seed).  The seeded shuffle is kept as one fixed permutation, a rotation.
deterministic_anagram(value) ==
  IF value = <<>> THEN value ELSE Tail(value) \o <<Head(value)>>

\* hash_text is collision free on the inputs of the model: the digest of a text
\* is the text itself, tagged.
hash_text(value) == <<"sha256", value>>

(***************************************************************************)
(* Categories and tokens (RuleEngine._normalize_category, the f-string of  *)
(* _get_or_create_token, the recognizer of reconcile).                     *)
(***************************************************************************)
GENERIC == <<"G","E","N","E","R","I","C">>

\* re.sub(r"[^A-Za-z0-9]+", "_", s): every run of other characters becomes one "_"
RECURSIVE SubNonAlnum(_, _)
SubNonAlnum(s, inRun) ==
  IF s = <<>> THEN <<>>
  ELSE IF Head(s) \in AlnumChars THEN <<Head(s)>> \o SubNonAlnum(Tail(s), FALSE)
  ELSE IF inRun THEN SubNonAlnum(Tail(s), TRUE)
  ELSE <<"_">> \o SubNonAlnum(Tail(s), TRUE)

\* str.strip("_")
RECURSIVE StripUnderscore(_)
StripUnderscore(s) ==
  IF s # <<>> /\ Head(s) = "_" THEN StripUnderscore(Tail(s))
  ELSE IF s # <<>> /\ s[Len(s)] = "_" THEN StripUnderscore(SubSeq(s, 1, Len(s) - 1))
  ELSE s

normalize_category_no_sub(category) ==
  LET cleaned == upper(category) IN IF cleaned = <<>> THEN GENERIC ELSE cleaned
normalize_category(category) ==
  LET cleaned == StripUnderscore(SubNonAlnum(upper(category), FALSE))
  IN  IF cleaned = <<>> THEN GENERIC ELSE cleaned

\* the decimal digits of n >= 0
RECURSIVE Digits(_)
Digits(n) == IF n < 10 THEN <<DigitSeq[n + 1]>> ELSE Digits(n \div 10) \o <<DigitSeq[(n % 10) + 1]>>

\* format(n, "03d"): zero-padded to a width of at least three
Pad3(n) ==
  LET d == Digits(n)
  IN  IF Len(d) >= 3 THEN d ELSE [i \in 1..(3 - Len(d)) |-> "0"] \o d

TokenPrefix == <<"<","T","K","N","_">>

\* f"<TKN_{normalized_category}_{next_index:03d}>"
FormatToken(normalized_category, next_index) ==
  TokenPrefix \o normalized_category \o <<"_">> \o Pad3(next_index) \o <<">">>

\* the length of the longest run of characters of cls in text from offset i
RECURSIVE RunLength(_, _, _)
RunLength(text, i, cls) ==
  IF i < Len(text) /\ text[i + 1] \in cls THEN 1 + RunLength(text, i + 1, cls) ELSE 0

\* re.match(r"<TKN_[A-Z0-9_]+_[0-9]{3}>") at offset i: the end offset, or -1.
\* ">" is outside [A-Z0-9_], so the class run must reach the ">" and end in
\* "_" and three digits, with at least one category character before them.
TokenEndAt(text, i) ==
  IF ~OccursAt(text, TokenPrefix, i) THEN -1
  ELSE LET r == RunLength(text, i + 5, TokenClass)
           e == i + 5 + r
       IN  IF /\ r >= 5
              /\ e < Len(text)
              /\ text[e + 1] = ">"
              /\ text[e - 3] = "_"
              /\ \A k \in 0..2 : text[e - k] \in DigitChars
           THEN e + 1
           ELSE -1

\* token_pattern.findall(text): the tokens, left to right, not overlapping
RECURSIVE FindTokens(_, _)
FindTokens(text, i) ==
  IF i >= Len(text) THEN <<>>
  ELSE LET e == TokenEndAt(text, i)
       IN  IF e = -1 THEN FindTokens(text, i + 1)
           ELSE <<Slice(text, i, e)>> \o FindTokens(text, e)

\* group(1) of re.match(r"<TKN_([A-Z0-9_]+)_([0-9]{3})>", token)
TokenCategory(token) ==
  IF TokenEndAt(token, 0) = -1 THEN <<>> ELSE SubSeq(token, 6, Len(token) - 5)

MatchesGrammar(token) == TokenEndAt(token, 0) = Len(token)

(***************************************************************************)
(* Patterns.  A pattern of the model is a sequence of elements             *)
(*   [q |-> "1" | "?" | "*" | "+", cls |-> a set of characters]            *)
(*   [q |-> "b", cls |-> {}]                      the assertion \b         *)
(* matched as the re module matches them: leftmost, each quantifier greedy,*)
(* backtracking to the first alternative that lets the rest match.         *)
(***************************************************************************)
\* a character against a class, under re.IGNORECASE when ic
CharIn(c, cls, ic) ==
  \/ c \in cls
  \/ ic /\ (FoldChar(c) \in cls \/ UpperChar(c) \in cls)

\* \b at offset i: exactly one of the characters around it is a word character
IsBoundary(text, i) ==
  LET before == i >= 1 /\ text[i] \in WordChars
      after == i < Len(text) /\ text[i + 1] \in WordChars
  IN  before # after

RECURSIVE RunLengthIc(_, _, _, _)
RunLengthIc(text, i, cls, ic) ==
  IF i < Len(text) /\ CharIn(text[i + 1], cls, ic)
  THEN 1 + RunLengthIc(text, i + 1, cls, ic) ELSE 0

\* the end offset of the match of elements k.. of pat at offset i, or -1
RECURSIVE RegexEnd(_, _, _, _, _)
RECURSIVE RepEnd(_, _, _, _, _, _, _)
RegexEnd(pat, k, text, i, ic) ==
  IF k > Len(pat) THEN i
  ELSE LET e == pat[k] IN
    CASE e.q = "b" -> IF IsBoundary(text, i) THEN RegexEnd(pat, k + 1, text, i, ic) ELSE -1
      [] e.q = "1" -> IF i < Len(text) /\ CharIn(text[i + 1], e.cls, ic)
                      THEN RegexEnd(pat, k + 1, text, i + 1, ic) ELSE -1
      [] e.q = "?" -> RepEnd(pat, k, text, i, ic,
                             IF i < Len(text) /\ CharIn(text[i + 1], e.cls, ic) THEN 1 ELSE 0, 0)
      [] e.q = "*" -> RepEnd(pat, k, text, i, ic, RunLengthIc(text, i, e.cls, ic), 0)
      [] e.q = "+" -> RepEnd(pat, k, text, i, ic, RunLengthIc(text, i, e.cls, ic), 1)
\* element k repeated j times, then j - 1, ... down to min
RepEnd(pat, k, text, i, ic, j, min) ==
  IF j < min THEN -1
  ELSE LET r == RegexEnd(pat, k + 1, text, i + j, ic)
       IN  IF r # -1 THEN r ELSE RepEnd(pat, k, text, i, ic, j - 1, min)

\* re.finditer(pattern, text, flags): the spans [start, end) left to right.
\* After an empty match at i the search resumes at i and may not match
\* empty there again; after a non-empty match an empty one may follow.
RECURSIVE FindIter(_, _, _, _, _)
FindIter(pat, text, i, ic, noEmptyAt) ==
  IF i > Len(text) THEN <<>>
  ELSE LET e == RegexEnd(pat, 1, text, i, ic)
       IN  IF e = -1 \/ (e = i /\ i = noEmptyAt)
           THEN FindIter(pat, text, i + 1, ic, noEmptyAt)
           ELSE <<[start |-> i, end |-> e]>>
                  \o FindIter(pat, text, e, ic, IF e = i THEN i ELSE -1)

(***************************************************************************)
(* The match finder (RuleEngine._find_regex_matches, _find_term_matches).  *)
(* A regex rule's pattern is [valid, elems]: re.error is raised for a      *)
(* pattern that does not compile (valid = FALSE).                          *)
(***************************************************************************)
Candidate(text, span, rule) ==
  [start |-> span.start, end |-> span.end,
   value |-> Slice(text, span.start, span.end), rule |-> rule]

\* a finder that runs a pattern whether or not it compiles
find_regex_matches_unchecked(text, rule) ==
  LET spans == FindIter(rule.pattern.elems, text, 0, ~rule.case_sensitive, -1)
  IN  [n \in 1..Len(spans) |-> Candidate(text, spans[n], rule)]

\* try: re.finditer(...) except re.error: return []
find_regex_matches(text, rule) ==
  IF ~rule.pattern.valid THEN <<>>
  ELSE LET spans == FindIter(rule.pattern.elems, text, 0, ~rule.case_sensitive, -1)
       IN  [n \in 1..Len(spans) |-> Candidate(text, spans[n], rule)]

\* re.finditer raises an exception that is no re.error, which
\* _find_regex_matches lets through to the caller of sanitize
ScanRaises(rules) ==
  \E n \in 1..Len(rules) :
    /\ rules[n].rule_type = "regex"
    /\ ~rules[n].pattern.valid
    /\ rules[n].pattern.error # "re.error"

\* re.escape(term), with \b on the side of a word character when word_boundary
TermPattern(term, word_boundary) ==
  LET b == <<[q |-> "b", cls |-> {}]>>
      start_boundary == IF word_boundary /\ term[1] \in WordChars THEN b ELSE <<>>
      end_boundary == IF word_boundary /\ term[Len(term)] \in WordChars THEN b ELSE <<>>
  IN  start_boundary \o [k \in 1..Len(term) |-> [q |-> "1", cls |-> {term[k]}]] \o end_boundary

RECURSIVE find_term_matches_from(_, _, _)
find_term_matches_from(text, rule, n) ==
  IF n > Len(rule.terms) THEN <<>>
  ELSE LET term == rule.terms[n]
           spans == IF term = <<>> THEN <<>>
                    ELSE FindIter(TermPattern(term, rule.word_boundary), text, 0,
                                  ~rule.case_sensitive, -1)
       IN  [m \in 1..Len(spans) |-> Candidate(text, spans[m], rule)]
             \o find_term_matches_from(text, rule, n + 1)
find_term_matches(text, rule) == find_term_matches_from(text, rule, 1)

\* the loop of sanitize over rules_snapshot
RECURSIVE find_candidates(_, _, _)
find_candidates(text, rules, n) ==
  IF n > Len(rules) THEN <<>>
  ELSE LET rule == rules[n]
           found == IF rule.rule_type = "regex" /\ rule.pattern.elems # <<>>
                      THEN find_regex_matches(text, rule)
                    ELSE IF rule.rule_type = "list" /\ rule.terms # <<>>
                      THEN find_term_matches(text, rule)
                    ELSE <<>>
       IN  found \o find_candidates(text, rules, n + 1)

(***************************************************************************)
(* The overlap resolver (RuleEngine._resolve_overlaps).                    *)
(***************************************************************************)
\* a sort key that puts the shorter span first
KeyLessShortest(a, b) ==
  \/ a.start < b.start
  \/ a.start = b.start /\ (a.end - a.start) < (b.end - b.start)
\* the sort key (start, -(end - start), -priority), compared as tuples
KeyLess(a, b) ==
  \/ a.start < b.start
  \/ a.start = b.start /\ (a.end - a.start) > (b.end - b.start)
  \/ a.start = b.start /\ (a.end - a.start) = (b.end - b.start)
       /\ a.rule.priority > b.rule.priority

StartLess(a, b) == a.start < b.start

\* sorted() is stable: c goes after every element that is not greater.
\* full: the key of _resolve_overlaps; otherwise the key of selected.sort.
Less(a, b, full) == IF full THEN KeyLess(a, b) ELSE StartLess(a, b)

RECURSIVE InsertSorted(_, _, _)
InsertSorted(sorted, c, full) ==
  IF sorted = <<>> THEN <<c>>
  ELSE IF Less(c, Head(sorted), full) THEN <<c>> \o sorted
  ELSE <<Head(sorted)>> \o InsertSorted(Tail(sorted), c, full)

RECURSIVE StableSort(_, _, _)
StableSort(items, n, full) ==
  IF n = 0 THEN <<>> ELSE InsertSorted(StableSort(items, n - 1, full), items[n], full)

Overlaps(candidate, occupied) ==
  \E k \in 1..Len(occupied) :
    candidate.start < occupied[k].end /\ occupied[k].start < candidate.end

RECURSIVE AcceptFrom(_, _, _)
AcceptFrom(ordered, n, accepted) ==
  IF n > Len(ordered) THEN accepted
  ELSE IF Overlaps(ordered[n], accepted) THEN AcceptFrom(ordered, n + 1, accepted)
  ELSE AcceptFrom(ordered, n + 1, Append(accepted, ordered[n]))

resolve_overlaps(candidates) ==
  AcceptFrom(StableSort(candidates, Len(candidates), TRUE), 1, <<>>)

\* selected of sanitize, after selected.sort(key=start)
SelectMatches(text, rules) ==
  LET selected == resolve_overlaps(find_candidates(text, rules, 1))
  IN  StableSort(selected, Len(selected), FALSE)

(***************************************************************************)
(* The data of the model: sessions, caller threads, the installed ruleset, *)
(* the texts given to sanitize and to reconcile.                           *)
(***************************************************************************)
Threads == {"t1", "t2"}
Sessions == {"s1"}

BUSINESS == <<"B","U","S","I","N","E","S","S">>
PII == <<"P","I","I">>
SECRET == <<"S","E","C","R","E","T">>
FINANCIAL == <<"F","I","N","A","N","C","I","A","L">>

\* Settings.token_ttl_days (TOKEN_TTL_DAYS), in ticks of the model clock
token_ttl_days == 1
\* the clock stops at MaxTime
MaxTime == 2
\* delete_session is called at most MaxDeletes times
MaxDeletes == 1

NoPattern == [valid |-> TRUE, error |-> "none", elems |-> <<>>]

\* A regex rule of category PII (as email_regex, phone_regex): \b[0-9]+\b
pin_regex ==
  [id |-> "pin_regex", rule_type |-> "regex", category |-> PII, action |-> "tokenize",
   priority |-> 120, case_sensitive |-> FALSE, word_boundary |-> TRUE,
   pattern |-> [valid |-> TRUE, error |-> "none",
                elems |-> <<[q |-> "b", cls |-> {}], [q |-> "+", cls |-> DigitChars],
                            [q |-> "b", cls |-> {}]>>],
   replacement |-> <<>>, terms |-> <<>>]

\* The declared list lists/clients.txt: two terms
clients ==
  [id |-> "clients", rule_type |-> "list", category |-> BUSINESS, action |-> "tokenize",
   priority |-> 95, case_sensitive |-> FALSE, word_boundary |-> TRUE,
   pattern |-> NoPattern, replacement |-> <<>>,
   terms |-> << <<"a","b">>, <<"c","d">> >>]

\* The RulesetState that _load_ruleset builds from the ruleset document
DefaultState ==
  [version |-> 1, mode |-> "enforce",
   rules |-> <<pin_regex, clients>>,
   never_reconcile_categories |-> {PII, SECRET, FINANCIAL}]

\* texts given to sanitize
Texts ==
  { <<"a","b"," ","c","d">>,
    <<"a","b"," ","A","B">>,
    <<"c","d">>,
    <<"7"," ","a","b">>,
    <<>> }

\* the calls of sanitize: (session, text)
SanitizeCalls == {"s1"} \X Texts

B1 == FormatToken(BUSINESS, 1)
B2 == FormatToken(BUSINESS, 2)
P1 == FormatToken(PII, 1)

\* texts given to reconcile (a provider reply), besides a sanitized text
ReplyTexts ==
  { <<"x"," ">> \o B1,
    P1 \o <<" ">> \o B1,
    B2 \o B1 \o <<" ">> \o B2,
    <<"n","o">> }

\* the calls of sanitize that run concurrently
ConcurrentCalls ==
  {"s1"} \X {<<"a","b"," ","c","d">>, <<"c","d">>}

\* the calls of reconcile on a reply: (session, text)
ReconcileCalls == {"s1"} \X ReplyTexts

(***************************************************************************)
(* State.                                                                  *)
(***************************************************************************)
VARIABLES
  engine_state,  \* RuleEngine._state
  ledger,        \* the rows of table token_mappings
  now,           \* datetime.now(timezone.utc)
  th,            \* per caller thread: the call in progress and its locals
  assigned,      \* history: every (session, token, value_hash) ever inserted
  issued,        \* history: per (session, value_hash), the token of the first
                 \* get_or_create that returned since the session was deleted
  deletes,       \* the number of delete_session calls so far
  chat,          \* table chat_messages, the calls of the provider, and the
                 \* chat turn in progress (post_message) with its locals
  loaded         \* the latest reload() or validate(): how it ended, what it
                 \* returned, and the state installed before it

vars == <<engine_state, ledger, now, th, assigned, issued, deletes, chat, loaded>>

NoGoc == [value |-> <<>>, value_hash |-> <<>>, category |-> <<>>, token |-> <<>>]

IdleThread ==
  [pc |-> "idle", op |-> "none", session |-> "none",
   text |-> <<>>, selected |-> <<>>, k |-> 0, sanitized |-> <<>>, cursor |-> 0,
   tokens_created |-> 0, results |-> <<>>, goc |-> NoGoc, conflicts |-> 0,
   rtext |-> <<>>, tokens |-> <<>>, reconciled |-> <<>>, replaced_count |-> 0,
   missing |-> <<>>, decoded_values |-> <<>>, seen |-> <<>>,
   fresh |-> FALSE, rt |-> FALSE, rules_snapshot |-> <<>>]

NoTurn ==
  [pc |-> "idle", session |-> "none", original |-> <<>>, output_extension |-> <<>>,
   sanitized |-> <<>>, provider_messages |-> <<>>, reply |-> <<>>,
   log |-> <<>>, response |-> <<>>, audit_id |-> 0]

NoLoad ==
  [op |-> "none", ok |-> TRUE, raised |-> FALSE, returned |-> <<>>,
   before |-> DefaultState]

\* tables chat_sessions, chat_messages and audit_events, settings.logging_enabled,
\* the calls of the provider, the turn in progress, and the sessions deleted
NoChat ==
  [sessions |-> Sessions, messages |-> <<>>, audit |-> {}, logging_enabled |-> FALSE,
   calls |-> <<>>, turns |-> 0, turn |-> NoTurn, deleted |-> {}]

\* the thread is between two calls
Free(t) == th[t].pc \in {"idle", "done", "failed"}
Quiet == \A t \in Threads : Free(t)

Init ==
  /\ engine_state = DefaultState
  /\ ledger = {}
  /\ now = 0
  /\ th = [t \in Threads |-> IdleThread]
  /\ assigned = {}
  /\ issued = <<>>
  /\ deletes = 0
  /\ chat = NoChat
  /\ loaded = NoLoad

(***************************************************************************)
(* The ledger: the statements run on token_mappings (Database.fetchone and *)
(* Database.execute run one statement each under the connection lock).     *)
(***************************************************************************)
\* value_hash of _get_or_create_token
ValueHash(normalized_category, value) ==
  hash_text(normalized_category \o <<"|">> \o strip(casefold(value)))

\* a lookup that leaves value_hash out of its WHERE clause
SelectByValueAnyValue(rows, session_id, value_hash, category) ==
  {r \in rows : r.session_id = session_id /\ r.category = category}
\* SELECT token ... WHERE session_id = ? AND value_hash = ? AND category = ?
SelectByValue(rows, session_id, value_hash, category) ==
  {r \in rows : r.session_id = session_id /\ r.value_hash = value_hash
                  /\ r.category = category}

\* SELECT COUNT(*) ... WHERE session_id = ? AND category = ?
CountRows(rows, session_id, category) ==
  Cardinality({r \in rows : r.session_id = session_id /\ r.category = category})

\* a SELECT by token alone, without the session
SelectByTokenAnySession(rows, session_id, token) ==
  {r \in rows : r.token = token}
\* SELECT ... WHERE session_id = ? AND token = ?
SelectByToken(rows, session_id, token) ==
  {r \in rows : r.session_id = session_id /\ r.token = token}

\* a table without its UNIQUE constraints
UniqueOkOff(rows, row) == TRUE
\* UNIQUE(session_id, token), UNIQUE(session_id, value_hash, category)
UniqueOk(rows, row) ==
  ~\E r \in rows :
     /\ r.session_id = row.session_id
     /\ \/ r.token = row.token
        \/ r.value_hash = row.value_hash /\ r.category = row.category

\* an index that moves with the clock
NextIndexClock(rows, session_id, category) == CountRows(rows, session_id, category) + now
\* next_index of _get_or_create_token
NextIndex(rows, session_id, category) == CountRows(rows, session_id, category) + 1

\* the row of the INSERT statement (its id, a uuid4, is left out: the UNIQUE
\* constraints already keep any two rows apart)
NewRow(session_id, goc, clock) ==
  [session_id |-> session_id, token |-> goc.token,
   value_hash |-> goc.value_hash, original_value_enc |-> encrypt_value(goc.value),
   category |-> goc.category, created_at |-> clock,
   expires_at |-> clock + token_ttl_days]

(***************************************************************************)
(* sanitize (RuleEngine.sanitize, _apply_action, _get_or_create_token).    *)
(* The scan works on the snapshot of the rules and is one step; every      *)
(* statement on the ledger is a step of its own, as nothing holds a lock   *)
(* from one statement to the next.                                         *)
(***************************************************************************)
\* get_or_create returned token for key
Returned(key, token) ==
  IF key \in DOMAIN issued THEN issued
  ELSE [k \in DOMAIN issued \cup {key} |-> IF k = key THEN token ELSE issued[k]]

\* a loop of sanitize that counts every match as a token created
EmitCounting(r, replacement, created) ==
  LET match == r.selected[r.k]
      out == r.sanitized \o Slice(r.text, r.cursor, match.start) \o replacement
      last == r.k = Len(r.selected)
  IN  [r EXCEPT !.sanitized = IF last THEN out \o Slice(r.text, match.end, Len(r.text))
                              ELSE out,
                !.cursor = match.end,
                !.k = r.k + 1,
                !.tokens_created = @ + 1,
                !.results = Append(@, [value |-> match.value, replacement |-> replacement,
                                       created |-> created, action |-> match.rule.action]),
                !.goc = NoGoc,
                !.fresh = last,
                !.pc = IF last THEN "done" ELSE "apply"]

\* the replacement of the match in hand is known: the body of the loop of
\* sanitize after _apply_action, and the lines after the loop on the last match
Emit(r, replacement, created) ==
  LET match == r.selected[r.k]
      out == r.sanitized \o Slice(r.text, r.cursor, match.start) \o replacement
      last == r.k = Len(r.selected)
  IN  [r EXCEPT !.sanitized = IF last THEN out \o Slice(r.text, match.end, Len(r.text))
                              ELSE out,
                !.cursor = match.end,
                !.k = r.k + 1,
                !.tokens_created = IF created THEN @ + 1 ELSE @,
                !.results = Append(@, [value |-> match.value, replacement |-> replacement,
                                       created |-> created, action |-> match.rule.action]),
                !.goc = NoGoc,
                !.fresh = last,
                !.pc = IF last THEN "done" ELSE "apply"]

\* rules_triggered and transformations of the SanitizationResult
rules_triggered(r) == {r.selected[i].rule.id : i \in 1..Len(r.results)}
transformations(r) == Len(r.selected)

\* the locals of sanitize when it reaches its loop, or returns before it
SanitizeStart(session_id, text) ==
  LET selected == IF text = <<>> THEN <<>>
                  ELSE SelectMatches(text, engine_state.rules)
      r == [IdleThread EXCEPT !.op = "sanitize", !.session = session_id,
                              !.text = text, !.selected = selected]
  IN  IF text # <<>> /\ ScanRaises(engine_state.rules)
      THEN [r EXCEPT !.pc = "failed", !.selected = <<>>]
      ELSE IF selected = <<>>
      THEN [r EXCEPT !.pc = "done", !.sanitized = text, !.fresh = TRUE]
      ELSE [r EXCEPT !.pc = "apply", !.k = 1]

SanitizeBegin(t, session_id, text) ==
  /\ Free(t)
  /\ th' = [th EXCEPT ![t] = SanitizeStart(session_id, text)]
  /\ UNCHANGED <<engine_state, ledger, now, assigned, issued, deletes, chat, loaded>>

\* _apply_action for the actions that do not touch the ledger
LocalReplacement(rule, value) ==
  CASE rule.action = "replace" ->
         IF rule.replacement # <<>> THEN rule.replacement
         ELSE <<"[">> \o rule.category \o <<"]">>
    [] rule.action = "anagram" -> deterministic_anagram(value)
    [] rule.action = "simple_encrypt" -> simple_encrypt(value)
    [] OTHER -> value

\* _apply_action; for tokenize, the first statement of _get_or_create_token
Apply(t) ==
  LET r == th[t]
      match == r.selected[r.k]
      rule == match.rule
      normalized_category == normalize_category(rule.category)
      value_hash == ValueHash(normalized_category, match.value)
      rows == SelectByValue(ledger, r.session, value_hash, normalized_category)
      row == CHOOSE x \in rows : TRUE
  IN  /\ r.pc = "apply"
      /\ IF rule.action # "tokenize"
         THEN /\ th' = [th EXCEPT ![t] = Emit(r, LocalReplacement(rule, match.value), FALSE)]
              /\ UNCHANGED issued
         ELSE IF rows # {}
         THEN /\ th' = [th EXCEPT ![t] = Emit(r, row.token, FALSE)]
              /\ issued' = Returned(<<r.session, value_hash>>, row.token)
         ELSE /\ th' = [th EXCEPT ![t] =
                          [r EXCEPT !.pc = "count",
                                    !.conflicts = 0,
                                    !.goc = [value |-> match.value, value_hash |-> value_hash,
                                             category |-> normalized_category,
                                             token |-> <<>>]]]
              /\ UNCHANGED issued
      /\ UNCHANGED <<engine_state, ledger, now, assigned, deletes, chat, loaded>>

\* the COUNT(*) statement and the token it gives
Count(t) ==
  LET r == th[t]
      next_index == NextIndex(ledger, r.session, r.goc.category)
  IN  /\ r.pc = "count"
      /\ th' = [th EXCEPT ![t] =
                  [r EXCEPT !.pc = "insert",
                            !.goc.token = FormatToken(r.goc.category, next_index)]]
      /\ UNCHANGED <<engine_state, ledger, now, assigned, issued, deletes, chat, loaded>>

\* the INSERT statement: sqlite3.IntegrityError leaves _get_or_create_token,
\* _apply_action and sanitize when a UNIQUE constraint fails
Insert(t) ==
  LET r == th[t]
      row == NewRow(r.session, r.goc, now)
  IN  /\ r.pc = "insert"
      /\ IF UniqueOk(ledger, row)
         THEN /\ ledger' = ledger \cup {row}
              /\ th' = [th EXCEPT ![t] = Emit(r, row.token, TRUE)]
              /\ assigned' = assigned \cup {<<r.session, row.token, row.value_hash>>}
              /\ issued' = Returned(<<r.session, row.value_hash>>, row.token)
         ELSE /\ th' = [th EXCEPT ![t] = [r EXCEPT !.pc = "failed", !.conflicts = @ + 1]]
              /\ UNCHANGED <<ledger, assigned, issued>>
      /\ UNCHANGED <<engine_state, now, deletes, chat, loaded>>

(***************************************************************************)
(* reconcile (RuleEngine.reconcile): one step per token of the loop.       *)
(***************************************************************************)
RECURSIVE CountOccurrences(_, _, _)
CountOccurrences(text, sub, i) ==
  IF i + Len(sub) > Len(text) THEN 0
  ELSE IF OccursAt(text, sub, i) THEN 1 + CountOccurrences(text, sub, i + Len(sub))
  ELSE CountOccurrences(text, sub, i + 1)

\* str.replace(sub, by)
RECURSIVE Replace(_, _, _, _)
Replace(text, sub, by, i) ==
  IF i + Len(sub) > Len(text) THEN Slice(text, i, Len(text))
  ELSE IF OccursAt(text, sub, i) THEN by \o Replace(text, sub, by, i + Len(sub))
  ELSE <<text[i + 1]>> \o Replace(text, sub, by, i + 1)

SeqToSet(q) == {q[i] : i \in 1..Len(q)}

\* sorted(set(findall), key=len, reverse=True): the order of the tokens of one
\* length is the iteration order of a set of strings, which is not fixed
TokenOrders(found) ==
  LET S == SeqToSet(found)
      n == Cardinality(S)
  IN  {o \in [1..n -> S] :
         /\ \A i, j \in 1..n : i # j => o[i] # o[j]
         /\ \A i, j \in 1..n : i < j => Len(o[i]) >= Len(o[j])}

\* the locals of reconcile when it reaches its loop, or returns before it;
\* base holds the locals of the sanitize call whose text comes back, if any
ReconcileStart(base, session_id, text, order, rt) ==
  LET r == [base EXCEPT !.op = "reconcile", !.session = session_id, !.rtext = text,
                        !.tokens = order, !.reconciled = text, !.k = 1,
                        !.rt = rt, !.fresh = FALSE]
  IN  [r EXCEPT !.pc = IF text = <<>> \/ order = <<>> THEN "done" ELSE "recon",
                !.fresh = text = <<>> \/ order = <<>>]

ReconcileBegin(t, session_id, text, roundtrip) ==
  /\ Free(t)
  /\ roundtrip =>
       /\ th[t].pc = "done" /\ th[t].op = "sanitize"
       /\ th[t].session = session_id /\ th[t].sanitized = text
  /\ \E order \in TokenOrders(FindTokens(text, 0)) :
       th' = [th EXCEPT ![t] =
                ReconcileStart(IF roundtrip THEN th[t] ELSE IdleThread,
                               session_id, text, order, roundtrip /\ th[t].fresh)]
  /\ UNCHANGED <<engine_state, ledger, now, assigned, issued, deletes, chat, loaded>>

\* a reconcile that holds no category back
NeverReconcileOff(category, never) == FALSE
\* category.upper() in self._state.never_reconcile_categories
NeverReconcile(category, never) == upper(category) \in never

\* a reconcile for which no row is ever expired
ExpiredOff(row, clock) == FALSE

\* row["expires_at"] < datetime.now(timezone.utc).isoformat(): the two are
\* texts of one layout, ordered as the instants are
Expired(row, clock) == row.expires_at < clock

ReconcileStep(t) ==
  LET r == th[t]
      token == r.tokens[r.k]
      category == TokenCategory(token)
      rows == SelectByToken(ledger, r.session, token)
      row == CHOOSE x \in rows : TRUE
      original_value == decrypt_value(row.original_value_enc)
      occurrences == CountOccurrences(r.reconciled, token, 0)
      value_key == casefold(original_value)
      next == [r EXCEPT !.k = r.k + 1,
                        !.fresh = r.k = Len(r.tokens),
                        !.pc = IF r.k = Len(r.tokens) THEN "done" ELSE "recon"]
  IN  /\ r.pc = "recon"
      /\ th' = [th EXCEPT ![t] =
           IF NeverReconcile(category, engine_state.never_reconcile_categories) THEN next
           ELSE IF rows = {} THEN [next EXCEPT !.missing = Append(@, token)]
           ELSE IF Expired(row, now) THEN [next EXCEPT !.missing = Append(@, token)]
           ELSE IF occurrences = 0 THEN next
           ELSE [next EXCEPT
                   !.reconciled = Replace(r.reconciled, token, original_value, 0),
                   !.replaced_count = @ + occurrences,
                   !.seen = IF value_key \in SeqToSet(r.seen) THEN @ ELSE Append(@, value_key),
                   !.decoded_values = IF value_key \in SeqToSet(r.seen) THEN @
                                      ELSE Append(@, original_value)]]
      /\ UNCHANGED <<engine_state, ledger, now, assigned, issued, deletes, chat, loaded>>

(***************************************************************************)
(* delete_session (app/main.py) on the ledger, and the clock.              *)
(***************************************************************************)
\* a result in hand is no longer the result of the latest call
Disturbed(f) == [t \in Threads |-> [f[t] EXCEPT !.fresh = FALSE, !.rt = FALSE]]

\* a delete whose token_mappings statement has no WHERE clause
delete_session_all(session_id) ==
  /\ deletes < MaxDeletes
  /\ session_id \in chat.sessions
  /\ deletes' = deletes + 1
  /\ ledger' = {}
  /\ issued' = [k \in {x \in DOMAIN issued : x[1] # session_id} |-> issued[k]]
  /\ chat' = [chat EXCEPT !.sessions = @ \ {session_id},
                          !.messages = SelectSeq(@, LAMBDA m : m.session_id # session_id),
                          !.deleted = @ \cup {session_id}]
  /\ th' = Disturbed(th)
  /\ UNCHANGED <<engine_state, now, assigned, loaded>>

\* delete_session of a session that exists: DELETE FROM audit_events,
\* token_mappings, chat_messages WHERE session_id = ?, then the session
delete_session(session_id) ==
  /\ deletes < MaxDeletes
  /\ session_id \in chat.sessions
  /\ deletes' = deletes + 1
  /\ ledger' = {r \in ledger : r.session_id # session_id}
  /\ issued' = [k \in {x \in DOMAIN issued : x[1] # session_id} |-> issued[k]]
  /\ chat' = [chat EXCEPT
                !.audit = {a \in @ : a.session_id # session_id},
                !.messages = SelectSeq(@, LAMBDA m : m.session_id # session_id),
                !.sessions = @ \ {session_id},
                !.deleted = @ \cup {session_id}]
  /\ th' = Disturbed(th)
  /\ UNCHANGED <<engine_state, now, assigned, loaded>>

Tick ==
  /\ now < MaxTime
  /\ now' = now + 1
  /\ th' = Disturbed(th)
  /\ UNCHANGED <<engine_state, ledger, assigned, issued, deletes, chat, loaded>>

(***************************************************************************)
(* Specifications.                                                         *)
(*   Spec     callers run sanitize concurrently: their statements          *)
(*            interleave, with each other and with delete_session.         *)
(*   SpecSeq  one caller: thread t1 makes one call after the other, and    *)
(*            the clock and delete_session move between its calls.         *)
(***************************************************************************)
\* the steps of a sanitize call of caller t, drawn from calls
SanitizeSteps(t, scalls) ==
  \/ \E c \in scalls : SanitizeBegin(t, c[1], c[2])
  \/ Apply(t)
  \/ Count(t)
  \/ Insert(t)

\* the steps of a reconcile call of caller t: on a reply drawn from calls, or
\* on the text its own sanitize call has just returned
ReconcileSteps(t, rcalls) ==
  \/ \E c \in rcalls : ReconcileBegin(t, c[1], c[2], FALSE)
  \/ ReconcileBegin(t, th[t].session, th[t].sanitized, TRUE)
  \/ ReconcileStep(t)

Next ==
  \/ \E t \in Threads : SanitizeSteps(t, ConcurrentCalls)
  \/ \E s \in Sessions : delete_session(s)

Spec == Init /\ [][Next]_vars

NextSeq ==
  \/ SanitizeSteps("t1", SanitizeCalls)
  \/ ReconcileSteps("t1", ReconcileCalls)
  \/ Quiet /\ \E s \in Sessions : delete_session(s)
  \/ Quiet /\ Tick

SpecSeq == Init /\ [][NextSeq]_vars

(***************************************************************************)
(*   SpecBulk one caller on a session that has already tokenized           *)
(*            BulkRowCount distinct BUSINESS values.                       *)
(***************************************************************************)
\* the largest NNN that [0-9]{3} holds
MaxIndex == 999
BulkRowCount == MaxIndex - 1

\* the i-th value tokenized earlier, and the row its INSERT left
BulkValue(i) == <<"k">> \o Digits(i)
BulkRow(i) ==
  [session_id |-> "s1", token |-> FormatToken(BUSINESS, i),
   value_hash |-> ValueHash(BUSINESS, BulkValue(i)),
   original_value_enc |-> encrypt_value(BulkValue(i)),
   category |-> BUSINESS, created_at |-> 0, expires_at |-> token_ttl_days]

InitBulk ==
  /\ engine_state = DefaultState
  /\ ledger = {BulkRow(i) : i \in 1..BulkRowCount}
  /\ now = 0
  /\ th = [t \in Threads |-> IdleThread]
  /\ assigned = {<<"s1", BulkRow(i).token, BulkRow(i).value_hash>> : i \in 1..BulkRowCount}
  /\ issued = [k \in {<<"s1", BulkRow(i).value_hash>> : i \in 1..BulkRowCount} |->
                 FormatToken(BUSINESS,
                             CHOOSE i \in 1..BulkRowCount : BulkRow(i).value_hash = k[2])]
  /\ deletes = 0
  /\ chat = NoChat
  /\ loaded = NoLoad

NextBulk ==
  \/ SanitizeSteps("t1", SanitizeCalls)
  \/ ReconcileBegin("t1", th["t1"].session, th["t1"].sanitized, TRUE)
  \/ ReconcileStep("t1")

SpecBulk == InitBulk /\ [][NextBulk]_vars

(***************************************************************************)
(*   SpecScan one caller, under each of the rulesets ScanRulesets: rules   *)
(*            whose matches overlap, a pattern that matches the empty      *)
(*            text, a pattern that does not compile, and the actions       *)
(*            besides tokenize.                                            *)
(***************************************************************************)
CODE == <<"C","O","D","E">>

\* [a-z]+ under re.IGNORECASE, of the priority of clients
word_regex ==
  [id |-> "word_regex", rule_type |-> "regex", category |-> CODE, action |-> "anagram",
   priority |-> 95, case_sensitive |-> FALSE, word_boundary |-> TRUE,
   pattern |-> [valid |-> TRUE, error |-> "none", elems |-> <<[q |-> "+", cls |-> LowerChars]>>],
   replacement |-> <<>>, terms |-> <<>>]

\* [0-9]* : matches the empty text wherever no digit stands
digits_regex ==
  [id |-> "digits_regex", rule_type |-> "regex", category |-> CODE, action |-> "obfuscate",
   priority |-> 95, case_sensitive |-> FALSE, word_boundary |-> TRUE,
   pattern |-> [valid |-> TRUE, error |-> "none", elems |-> <<[q |-> "*", cls |-> DigitChars]>>],
   replacement |-> <<>>, terms |-> <<>>]

\* [0-9+ : re.error, the class is not closed
bad_regex ==
  [id |-> "bad_regex", rule_type |-> "regex", category |-> PII, action |-> "tokenize",
   priority |-> 130, case_sensitive |-> FALSE, word_boundary |-> TRUE,
   pattern |-> [valid |-> FALSE, error |-> "re.error", elems |-> <<[q |-> "+", cls |-> DigitChars]>>],
   replacement |-> <<>>, terms |-> <<>>]

\* [0-9]{4294967296} : the repetition number is too large, OverflowError
overflow_regex ==
  [id |-> "overflow_regex", rule_type |-> "regex", category |-> PII, action |-> "tokenize",
   priority |-> 130, case_sensitive |-> FALSE, word_boundary |-> TRUE,
   pattern |-> [valid |-> FALSE, error |-> "OverflowError",
                elems |-> <<[q |-> "+", cls |-> DigitChars]>>],
   replacement |-> <<>>, terms |-> <<>>]

\* a list of phrases, matched inside words too, replaced by [CODE]
phrases ==
  [id |-> "phrases", rule_type |-> "list", category |-> CODE, action |-> "replace",
   priority |-> 90, case_sensitive |-> TRUE, word_boundary |-> FALSE,
   pattern |-> NoPattern, replacement |-> <<>>,
   terms |-> << <<"a","b"," ","c","d">>, <<"b"," ","c">> >>]

ScanRulesets ==
  { <<pin_regex, clients>>,
    <<clients, digits_regex>>,
    <<digits_regex, pin_regex>>,
    <<bad_regex, pin_regex, clients>>,
    <<overflow_regex, clients>>,
    <<word_regex, clients>>,
    <<clients, word_regex>>,
    <<phrases, clients>>,
    <<clients, phrases, word_regex>> }

InitScan ==
  /\ engine_state \in {[DefaultState EXCEPT !.rules = rules] : rules \in ScanRulesets}
  /\ ledger = {}
  /\ now = 0
  /\ th = [t \in Threads |-> IdleThread]
  /\ assigned = {}
  /\ issued = <<>>
  /\ deletes = 0
  /\ chat = NoChat
  /\ loaded = NoLoad

NextScan == SanitizeSteps("t1", SanitizeCalls)

SpecScan == InitScan /\ [][NextScan]_vars

(***************************************************************************)
(*   SpecDet  sanitize run twice from one ledger: caller t1 runs it on a   *)
(*            ledger earlier calls have left, the rows of that run are     *)
(*            taken out again, the clock may move, and caller t2 runs it   *)
(*            on the same text.                                            *)
(***************************************************************************)
\* the row an earlier call, at time 0, left for value
PastRow(value, category, index) ==
  NewRow("s1", [value |-> value, value_hash |-> ValueHash(category, value),
                category |-> category, token |-> FormatToken(category, index)], 0)

InitialLedgers ==
  { {},
    {PastRow(<<"c","d">>, BUSINESS, 1)},
    {PastRow(<<"a","b">>, BUSINESS, 1), PastRow(<<"c","d">>, BUSINESS, 2)},
    {PastRow(<<"7">>, PII, 1), PastRow(<<"A","B">>, BUSINESS, 1)} }

DetTexts ==
  { <<"a","b"," ","c","d">>,
    <<"a","b"," ","A","B">>,
    <<"c","d"," ","c","d">>,
    <<"7"," ","a","b">> }

DetCalls == {"s1"} \X DetTexts

\* the rows the ledger held before the first run
Base(rows) == {r \in rows : r.created_at = 0}

InitDet ==
  /\ engine_state = DefaultState
  /\ ledger \in InitialLedgers
  /\ now = 1
  /\ th = [t \in Threads |-> IdleThread]
  /\ assigned = {<<r.session_id, r.token, r.value_hash>> : r \in ledger}
  /\ issued = [k \in {<<r.session_id, r.value_hash>> : r \in ledger} |->
                 (CHOOSE r \in ledger : r.value_hash = k[2]).token]
  /\ deletes = 0
  /\ chat = NoChat
  /\ loaded = NoLoad

FirstRun ==
  /\ th["t1"].pc # "done" /\ th["t2"].pc = "idle"
  /\ SanitizeSteps("t1", DetCalls)

\* the ledger is put back as the first run found it
Rewind ==
  /\ th["t1"].pc = "done" /\ th["t2"].pc = "idle"
  /\ ledger # Base(ledger)
  /\ ledger' = Base(ledger)
  /\ issued' = [k \in {<<r.session_id, r.value_hash>> : r \in Base(ledger)} |-> issued[k]]
  /\ UNCHANGED <<engine_state, now, th, assigned, deletes, chat, loaded>>

BetweenRuns == th["t1"].pc = "done" /\ th["t2"].pc = "idle" /\ Tick

SecondRun ==
  /\ th["t1"].pc = "done"
  /\ \/ /\ th["t2"].pc = "idle" /\ ledger = Base(ledger)
        /\ SanitizeBegin("t2", th["t1"].session, th["t1"].text)
     \/ Apply("t2")
     \/ Count("t2")
     \/ Insert("t2")

NextDet == FirstRun \/ Rewind \/ BetweenRuns \/ SecondRun

SpecDet == InitDet /\ [][NextDet]_vars

(***************************************************************************)
(* A chat turn: post_message of main.py, one request at a time. The caller  *)
(* of the engine is "t1".                                                   *)
(***************************************************************************)
MaxTurns == 2

\* settings.available_models
Models == {"m1"}

FORCED_OUTPUT_EXTENSIONS ==
  [txt |-> <<".","t","x","t">>, md |-> <<".","m","d">>, csv |-> <<".","c","s","v">>,
   docx |-> <<".","d","o","c","x">>,
   xlsx |-> <<".","x","l","s","x">>]

PDF == <<".","p","d","f">>

\* Path(filename).suffix.lower()
Suffix(filename) ==
  LET dots == {i \in 2..Len(filename) : filename[i] = "."}
  IN  IF dots = {} THEN <<>>
      ELSE LET last == CHOOSE i \in dots : \A j \in dots : j <= i
           IN  casefold(SubSeq(filename, last, Len(filename)))

\* the extension of the file to generate, <<>> for None
resolve_output_extension(response_mode, source_filename) ==
  IF response_mode = "chat" THEN <<>>
  ELSE IF response_mode \in DOMAIN FORCED_OUTPUT_EXTENSIONS
       THEN FORCED_OUTPUT_EXTENSIONS[response_mode]
  ELSE IF response_mode = "same_as_input"
       THEN LET suffix == Suffix(source_filename)
            IN  IF suffix = PDF THEN FORCED_OUTPUT_EXTENSIONS.txt
                ELSE IF suffix \in {FORCED_OUTPUT_EXTENSIONS[m] : m \in DOMAIN FORCED_OUTPUT_EXTENSIONS}
                     THEN suffix
                ELSE FORCED_OUTPUT_EXTENSIONS.txt
  ELSE <<>>

\* the fixed instruction of an extension (its first sentence stands for it)
build_output_format_instruction(extension) ==
  IF extension = FORCED_OUTPUT_EXTENSIONS.txt THEN <<"R","e","q","u","i","r","e","d"," ","o","u","t","p","u","t"," ","f","o","r","m","a","t",":"," ","T","X","T",".">>
  ELSE IF extension = FORCED_OUTPUT_EXTENSIONS.md THEN <<"R","e","q","u","i","r","e","d"," ","o","u","t","p","u","t"," ","f","o","r","m","a","t",":"," ","M","a","r","k","d","o","w","n"," ","(",".","m","d",")",".">>
  ELSE IF extension = FORCED_OUTPUT_EXTENSIONS.csv THEN <<"R","e","q","u","i","r","e","d"," ","o","u","t","p","u","t"," ","f","o","r","m","a","t",":"," ","C","S","V",".">>
  ELSE IF extension = FORCED_OUTPUT_EXTENSIONS.docx THEN <<"R","e","q","u","i","r","e","d"," ","o","u","t","p","u","t"," ","f","o","r","m","a","t",":"," ","s","t","r","u","c","t","u","r","e","d"," ","t","e","x","t","u","a","l"," ","d","o","c","u","m","e","n","t"," ","f","o","r"," ","D","O","C","X",".">>
  ELSE IF extension = FORCED_OUTPUT_EXTENSIONS.xlsx THEN <<"R","e","q","u","i","r","e","d"," ","o","u","t","p","u","t"," ","f","o","r","m","a","t",":"," ","t","a","b","u","l","a","r"," ","c","o","n","t","e","n","t"," ","f","o","r"," ","X","L","S","X",".">>
  ELSE <<"R","e","q","u","i","r","e","d"," ","o","u","t","p","u","t"," ","f","o","r","m","a","t",":"," ","p","l","a","i","n"," ","t","e","x","t",".">>

\* table uploaded_files
uploaded_files ==
  [f1 |-> [filename |-> <<"n",".","M","D">>, extracted_text |-> <<"a","b"," ","A","B">>]]

\* the chunk the text of a request gets for an attached file
AttachmentChunk(file_row) ==
  <<"\n", "\n">> \o <<"[","A","L","L","E","G","A","T","O",":"," ">> \o file_row.filename \o <<"]", "\n">>
    \o file_row.extracted_text

RECURSIVE Join(_)
Join(chunks) == IF chunks = <<>> THEN <<>> ELSE Head(chunks) \o Join(Tail(chunks))

\* the requests of the callers: MessageCreateRequest and the session of the path
ChatRequests ==
  { [session |-> "s1", model |-> "m1", message |-> <<"a","b"," ","c","d">>,
     file_ids |-> <<>>, response_mode |-> "chat"],
    [session |-> "s1", model |-> "m1", message |-> <<"c","d">>,
     file_ids |-> <<"f1">>, response_mode |-> "same_as_input"],
    [session |-> "s1", model |-> "m1", message |-> <<"7"," ","a","b">>,
     file_ids |-> <<>>, response_mode |-> "txt"],
    [session |-> "s9", model |-> "m1", message |-> <<"c","d">>,
     file_ids |-> <<>>, response_mode |-> "chat"],
    [session |-> "s1", model |-> "m9", message |-> <<"c","d">>,
     file_ids |-> <<>>, response_mode |-> "chat"] }

\* what the provider may answer
ChatReplies == { <<"x", " ">> \o B1, B1 \o <<" ">> \o B2, <<"n", "o">> }

TurnOver == chat.turn.pc \in {"idle", "returned", "rejected", "provider_error", "error"}

\* the lines up to the call of sanitize, and the call
TurnBegin(request) ==
  /\ TurnOver
  /\ Free("t1")
  /\ chat.turns < MaxTurns
  /\ LET mode0 == request.response_mode
         mode1 == IF mode0 = "same_as_input" /\ request.file_ids = <<>> THEN "chat" ELSE mode0
         effective_response_mode ==
           IF mode1 \in DOMAIN FORCED_OUTPUT_EXTENSIONS /\ request.file_ids = <<>>
           THEN "chat" ELSE mode1
         attachment_chunks ==
           [i \in 1..Len(request.file_ids) |-> AttachmentChunk(uploaded_files[request.file_ids[i]])]
         first_attachment_filename ==
           IF request.file_ids = <<>> THEN <<>>
           ELSE uploaded_files[request.file_ids[1]].filename
         output_extension ==
           resolve_output_extension(effective_response_mode, first_attachment_filename)
         original_user_text == request.message \o Join(attachment_chunks)
     IN  IF request.session \notin chat.sessions \/ request.model \notin Models
         THEN /\ chat' = [chat EXCEPT !.turns = @ + 1,
                                      !.turn = [NoTurn EXCEPT !.pc = "rejected"]]
              /\ UNCHANGED th
         ELSE /\ chat' = [chat EXCEPT !.turns = @ + 1,
                                      !.turn = [NoTurn EXCEPT !.pc = "sanitize",
                                                  !.session = request.session,
                                                  !.original = original_user_text,
                                                  !.output_extension = output_extension]]
              /\ th' = [th EXCEPT !["t1"] = SanitizeStart(request.session, original_user_text)]
  /\ UNCHANGED <<engine_state, ledger, now, assigned, issued, deletes, loaded>>

\* messages built from the content of the rows, not their sanitized_content
ProviderMessagesRaw(history_rows, output_extension) ==
  [i \in 1..Len(history_rows) |->
     [role |-> history_rows[i].role, content |-> history_rows[i].content]]
  \o IF output_extension # <<>>
     THEN << [role |-> "system",
              content |-> build_output_format_instruction(output_extension)] >>
     ELSE <<>>

\* the messages given to the provider, built from the rows of the session
ProviderMessages(history_rows, output_extension) ==
  [i \in 1..Len(history_rows) |->
     [role |-> history_rows[i].role, content |-> history_rows[i].sanitized_content]]
  \o IF output_extension # <<>>
     THEN << [role |-> "system",
              content |-> build_output_format_instruction(output_extension)] >>
     ELSE <<>>

SessionRows(messages, session_id) ==
  SelectSeq(messages, LAMBDA m : m.session_id = session_id)

\* sanitize has returned: the user message is stored and the messages for the
\* provider are built
StoreUser ==
  /\ chat.turn.pc = "sanitize"
  /\ th["t1"].op = "sanitize" /\ th["t1"].pc = "done"
  /\ LET sanitized == th["t1"].sanitized
         row == [session_id |-> chat.turn.session, role |-> "user",
                 content |-> chat.turn.original, sanitized_content |-> sanitized]
         messages == Append(chat.messages, row)
         history_rows == SessionRows(messages, chat.turn.session)
     IN  chat' = [chat EXCEPT
                    !.messages = messages,
                    !.turn.pc = "provider",
                    !.turn.sanitized = sanitized,
                    !.turn.provider_messages =
                       ProviderMessages(history_rows, chat.turn.output_extension),
                    !.turn.log = @ \o <<"sanitize", "store_user">>]
  /\ UNCHANGED <<engine_state, ledger, now, th, assigned, issued, deletes, loaded>>

\* llm_gateway.chat raises LLMGatewayError: the turn ends with the mapped error
ProviderFails ==
  /\ chat.turn.pc = "provider"
  /\ chat' = [chat EXCEPT !.calls = Append(@, chat.turn.provider_messages),
                          !.turn.pc = "provider_error",
                          !.turn.log = @ \o <<"provider">>]
  /\ UNCHANGED <<engine_state, ledger, now, th, assigned, issued, deletes, loaded>>

\* llm_gateway.chat returns a reply, and reconcile is called on it
ProviderReplies ==
  /\ chat.turn.pc = "provider"
  /\ \E reply \in ChatReplies :
       \E order \in TokenOrders(FindTokens(reply, 0)) :
         /\ chat' = [chat EXCEPT !.calls = Append(@, chat.turn.provider_messages),
                                 !.turn.pc = "reconcile",
                                 !.turn.reply = reply,
                                 !.turn.log = @ \o <<"provider">>]
         /\ th' = [th EXCEPT !["t1"] =
                     ReconcileStart(IdleThread, chat.turn.session, reply, order, FALSE)]
  /\ UNCHANGED <<engine_state, ledger, now, assigned, issued, deletes, loaded>>

\* what reconcile returns
reconcile_result(r) == <<r.reconciled, r.replaced_count, r.missing, r.decoded_values>>

\* the number of targets the caller unpacks the result of reconcile into
UnpackTargets == 3

\* reconcile has returned: the caller unpacks its result, stores the
\* assistant message and answers; an unpacking of a tuple of another length
\* raises ValueError and ends the request
Finish ==
  /\ chat.turn.pc = "reconcile"
  /\ th["t1"].op = "reconcile" /\ th["t1"].pc = "done"
  /\ LET result == reconcile_result(th["t1"])
     IN  IF Len(result) = UnpackTargets
         THEN LET assistant_content == result[1]
                  row == [session_id |-> chat.turn.session, role |-> "assistant",
                          content |-> assistant_content,
                          sanitized_content |-> chat.turn.reply]
                  audit_id == IF chat.logging_enabled THEN chat.turns ELSE 0
                  event == [id |-> audit_id, session_id |-> chat.turn.session,
                            tokens_reconciled |-> result[2]]
              IN  chat' = [chat EXCEPT
                             !.messages = Append(@, row),
                             !.audit = IF chat.logging_enabled THEN @ \cup {event} ELSE @,
                             !.turn.audit_id = audit_id,
                             !.turn.pc = "returned",
                             !.turn.response = << [role |-> "user",
                                                   content |-> chat.turn.sanitized],
                                                  [role |-> "assistant",
                                                   content |-> assistant_content] >>,
                             !.turn.log = @ \o <<"reconcile", "store_assistant", "return">>]
         ELSE chat' = [chat EXCEPT !.turn.pc = "error",
                                   !.turn.log = @ \o <<"reconcile">>]
  /\ UNCHANGED <<engine_state, ledger, now, th, assigned, issued, deletes, loaded>>

NextChat ==
  \/ \E request \in ChatRequests : TurnBegin(request)
  \/ Apply("t1")
  \/ Count("t1")
  \/ Insert("t1")
  \/ StoreUser
  \/ ProviderFails
  \/ ProviderReplies
  \/ ReconcileStep("t1")
  \/ Finish

SpecChat == Init /\ [][NextChat]_vars

(***************************************************************************)
(* Loading the ruleset: reload and validate of caller "t1", on what the     *)
(* disk holds at the time of the call.                                      *)
(***************************************************************************)
\* settings.never_reconcile_categories
SettingsNever == {PII, SECRET, FINANCIAL}

\* lists/clients.txt with a comment, a blank line and a term written twice
clients_txt ==
  [name |-> "lists/clients.txt", stem |-> "clients", suffix |-> ".txt", exists |-> TRUE,
   lines |-> << <<"#"," ","c">>, <<"a","b">>, <<" ">>, <<"c","d"," ">>, <<"A","B">> >>]

\* lists/extra.csv, which no document declares
extra_csv ==
  [name |-> "lists/extra.csv", stem |-> "extra", suffix |-> ".csv", exists |-> TRUE,
   lines |-> << <<"b"," ","c">> >>]

\* a list of a format _load_terms does not read
clients_xml ==
  [name |-> "lists/clients.xml", stem |-> "clients", suffix |-> ".xml", exists |-> TRUE,
   lines |-> << <<"a","b">> >>]

\* the item of a declared list: the fields of its rule and its source
ListItem(source) ==
  [source |-> source, id |-> "clients", category |-> <<"b","u","s","i","n","e","s","s">>,
   action |-> "tokenize", priority |-> 95, case_sensitive |-> FALSE,
   word_boundary |-> TRUE, include_reversed_word_order |-> FALSE]

\* the item of a regex rule of the document
RuleItem(rule, category) == [rule EXCEPT !.category = category]

Document1 ==
  [version |-> 2, mode |-> "enforce", never_reconcile_categories |-> << <<"p","i","i">> >>,
   rules |-> << RuleItem(pin_regex, <<"p","i","i">>) >>,
   lists |-> << ListItem("lists/clients.txt") >>]

Document2 ==
  [version |-> 3, mode |-> "monitor", never_reconcile_categories |-> <<>>,
   rules |-> << RuleItem(word_regex, CODE), RuleItem(pin_regex, PII) >>,
   lists |-> <<>>]

EmptyDocument ==
  [version |-> 1, mode |-> "enforce", never_reconcile_categories |-> <<>>,
   rules |-> <<>>, lists |-> <<>>]

\* what the disk may hold when the ruleset is loaded: the ruleset file (its
\* suffix, whether it exists, what its content parses to) and the files under
\* rules_dir, those of lists/ in the order of sorted(iterdir())
Disks ==
  { [exists |-> TRUE, suffix |-> ".yaml", parsed |-> "object", data |-> Document1,
     files |-> <<clients_txt>>],
    [exists |-> TRUE, suffix |-> ".yaml", parsed |-> "object", data |-> Document1,
     files |-> <<clients_txt, extra_csv>>],
    [exists |-> TRUE, suffix |-> ".json", parsed |-> "object", data |-> Document2,
     files |-> <<clients_txt>>],
    [exists |-> TRUE, suffix |-> ".yaml", parsed |-> "empty", data |-> EmptyDocument,
     files |-> <<>>],
    [exists |-> FALSE, suffix |-> ".yaml", parsed |-> "object", data |-> Document1,
     files |-> <<clients_txt>>],
    [exists |-> TRUE, suffix |-> ".yaml", parsed |-> "malformed", data |-> EmptyDocument,
     files |-> <<clients_txt>>],
    [exists |-> TRUE, suffix |-> ".json", parsed |-> "malformed", data |-> EmptyDocument,
     files |-> <<clients_txt>>],
    [exists |-> TRUE, suffix |-> ".json", parsed |-> "list", data |-> EmptyDocument,
     files |-> <<clients_txt>>],
    [exists |-> TRUE, suffix |-> ".toml", parsed |-> "object", data |-> Document2,
     files |-> <<clients_txt>>],
    [exists |-> TRUE, suffix |-> ".yaml", parsed |-> "object", data |-> Document1,
     files |-> <<extra_csv>>],
    [exists |-> TRUE, suffix |-> ".yaml", parsed |-> "object",
     data |-> [Document1 EXCEPT !.lists = << ListItem("lists/clients.xml") >>],
     files |-> <<clients_xml>>] }

Raise(message) == [ok |-> FALSE, message |-> message]

\* _read_ruleset_file: the document, or the exception it raises
read_ruleset_file(disk) ==
  IF ~disk.exists THEN Raise("Ruleset not found")
  ELSE IF disk.suffix \in {".yml", ".yaml"}
       THEN IF disk.parsed = "malformed" THEN Raise("yaml.YAMLError")
            ELSE IF disk.parsed \in {"empty", "object"}
                 THEN [ok |-> TRUE,
                       data |-> IF disk.parsed = "empty" THEN EmptyDocument ELSE disk.data]
            ELSE Raise("Ruleset must be an object")
  ELSE IF disk.suffix = ".json"
       THEN IF disk.parsed \in {"malformed", "empty"} THEN Raise("json.JSONDecodeError")
            ELSE IF disk.parsed = "object" THEN [ok |-> TRUE, data |-> disk.data]
            ELSE Raise("Ruleset must be an object")
  ELSE Raise("Unsupported ruleset format")

\* the last loop of _load_terms: the first of the terms equal by casefold
RECURSIVE Deduplicate(_, _)
Deduplicate(terms, seen) ==
  IF terms = <<>> THEN <<>>
  ELSE LET normalized == strip(Head(terms))
           key == casefold(normalized)
       IN  IF normalized = <<>> \/ key \in seen THEN Deduplicate(Tail(terms), seen)
           ELSE <<normalized>> \o Deduplicate(Tail(terms), seen \cup {key})

\* _load_terms on the file of that name, if the disk has it
load_terms(files, name) ==
  LET found == SelectSeq(files, LAMBDA f : f.name = name /\ f.exists)
  IN  IF found = <<>> THEN Raise("List file not found")
      ELSE LET file == found[1]
               values == [i \in 1..Len(file.lines) |-> strip(file.lines[i])]
               kept == SelectSeq(values, LAMBDA v :
                         v # <<>> /\ (file.suffix = ".txt" => v[1] # "#"))
           IN  IF file.suffix \in {".txt", ".csv", ".json"}
               THEN [ok |-> TRUE, terms |-> Deduplicate(kept, {})]
               ELSE Raise("Unsupported list format")

\* str.split(): the words of s, the runs of characters that are no whitespace
RECURSIVE SplitFrom(_, _, _, _)
SplitFrom(s, i, word, parts) ==
  IF i > Len(s) THEN IF word = <<>> THEN parts ELSE Append(parts, word)
  ELSE IF s[i] \in SpaceChars
       THEN SplitFrom(s, i + 1, <<>>, IF word = <<>> THEN parts ELSE Append(parts, word))
       ELSE SplitFrom(s, i + 1, Append(word, s[i]), parts)
split(s) == SplitFrom(s, 1, <<>>, <<>>)

\* " ".join(reversed(parts))
RECURSIVE JoinReversed(_)
JoinReversed(parts) ==
  IF parts = <<>> THEN <<>>
  ELSE IF Len(parts) = 1 THEN parts[1]
  ELSE parts[Len(parts)] \o <<" ">> \o JoinReversed(SubSeq(parts, 1, Len(parts) - 1))

\* the loop of _expand_reversed_word_order from term k on
RECURSIVE ExpandFrom(_, _, _, _)
ExpandFrom(terms, k, expanded, seen) ==
  IF k > Len(terms) THEN expanded
  ELSE LET parts == split(terms[k])
           reversed_term == JoinReversed(parts)
           key == casefold(reversed_term)
       IN  IF Len(parts) < 2 \/ key \in seen THEN ExpandFrom(terms, k + 1, expanded, seen)
           ELSE ExpandFrom(terms, k + 1, Append(expanded, reversed_term), seen \cup {key})

\* _expand_reversed_word_order
expand_reversed_word_order(terms) ==
  ExpandFrom(terms, 1, terms, {casefold(terms[i]) : i \in 1..Len(terms)})

ListRule(id, category, action, priority, case_sensitive, word_boundary, terms) ==
  [id |-> id, rule_type |-> "list", category |-> category, action |-> action,
   priority |-> priority, case_sensitive |-> case_sensitive,
   word_boundary |-> word_boundary, pattern |-> NoPattern, replacement |-> <<>>,
   terms |-> terms]

\* the loop over the declared lists, from item k on: the rules so far, or the
\* exception of the first list that fails
RECURSIVE DeclaredLists(_, _, _, _)
DeclaredLists(items, files, k, rules) ==
  IF k > Len(items) THEN [ok |-> TRUE, rules |-> rules]
  ELSE LET item == items[k]
           loaded_terms == load_terms(files, item.source)
       IN  IF item.source = "" THEN DeclaredLists(items, files, k + 1, rules)
           ELSE IF ~loaded_terms.ok THEN loaded_terms
           ELSE DeclaredLists(items, files, k + 1,
                  Append(rules, ListRule(item.id, upper(item.category), item.action,
                                         item.priority, item.case_sensitive,
                                         item.word_boundary,
                                         IF item.include_reversed_word_order
                                         THEN expand_reversed_word_order(loaded_terms.terms)
                                         ELSE loaded_terms.terms)))

AutoId == [clients |-> "auto_clients", extra |-> "auto_extra"]

\* the loop over the files of lists/ that no item declares
RECURSIVE AutoLists(_, _, _, _)
AutoLists(files, declared, k, rules) ==
  IF k > Len(files) THEN rules
  ELSE LET file == files[k]
           skipped == \/ ~file.exists
                      \/ file.name \in declared
                      \/ file.suffix \notin {".txt", ".csv", ".json"}
           terms == load_terms(files, file.name).terms
       IN  IF skipped \/ terms = <<>> THEN AutoLists(files, declared, k + 1, rules)
           ELSE AutoLists(files, declared, k + 1,
                  Append(rules, ListRule(AutoId[file.stem], BUSINESS, "tokenize", 90,
                                         FALSE, TRUE, terms)))

\* _load_ruleset: the RulesetState built from the disk, or the exception;
\* settings_never is self._settings.never_reconcile_categories
load_ruleset_from(disk, settings_never) ==
  LET read == read_ruleset_file(disk)
  IN  IF ~read.ok THEN read
      ELSE
        LET ruleset_data == read.data
            regex_rules == [i \in 1..Len(ruleset_data.rules) |->
                              [ruleset_data.rules[i] EXCEPT !.category = upper(@)]]
            lists == DeclaredLists(ruleset_data.lists, disk.files, 1, regex_rules)
        IN  IF ~lists.ok THEN lists
            ELSE
              LET declared == {ruleset_data.lists[i].source :
                                 i \in 1..Len(ruleset_data.lists)} \ {""}
                  rules == AutoLists(disk.files, declared, 1, lists.rules)
                  given == {upper(ruleset_data.never_reconcile_categories[i]) :
                              i \in 1..Len(ruleset_data.never_reconcile_categories)}
                  never == IF given = {} THEN settings_never ELSE given
              IN  [ok |-> TRUE,
                   state |-> [version |-> ruleset_data.version, mode |-> ruleset_data.mode,
                              rules |-> rules, never_reconcile_categories |-> never]]

\* _load_ruleset under the settings of an environment that sets nothing
load_ruleset(disk) == load_ruleset_from(disk, SettingsNever)

\* a reload that empties the installed rules before it loads
reload_state_eager(state, disk) ==
  LET load == load_ruleset(disk)
  IN  IF load.ok THEN load.state ELSE [state EXCEPT !.rules = <<>>]

\* the state of the engine after reload on that disk
reload_state(state, disk) ==
  LET load == load_ruleset(disk)
  IN  IF load.ok THEN load.state ELSE state

\* counts that take every rule for a list rule
get_rule_counts_all(state) == <<Len(state.rules), Len(state.rules)>>

\* get_rule_counts, on a state
get_rule_counts(state) ==
  <<Len(state.rules),
    Len(SelectSeq(state.rules, LAMBDA rule : rule.rule_type = "list"))>>

\* reload(): the exception of _load_ruleset goes to the caller
reload(t, disk) ==
  /\ Free(t)
  /\ LET load == load_ruleset(disk)
     IN  /\ engine_state' = reload_state(engine_state, disk)
         /\ loaded' = [op |-> "reload", ok |-> load.ok, raised |-> ~load.ok,
                       returned |-> <<>>, before |-> engine_state]
  /\ th' = [th EXCEPT ![t] = IdleThread]
  /\ UNCHANGED <<ledger, now, assigned, issued, deletes, chat>>

\* validate(): reload, then the counts of the state of the engine
validate(t, disk) ==
  /\ Free(t)
  /\ LET load == load_ruleset(disk)
         state == reload_state(engine_state, disk)
         counts == get_rule_counts(state)
     IN  /\ engine_state' = state
         /\ loaded' = [op |-> "validate", ok |-> load.ok, raised |-> FALSE,
                       returned |-> IF load.ok
                                    THEN <<TRUE, counts[1], counts[2], "Valid ruleset">>
                                    ELSE <<FALSE, 0, 0, load.message>>,
                       before |-> engine_state]
  /\ th' = [th EXCEPT ![t] = IdleThread]
  /\ UNCHANGED <<ledger, now, assigned, issued, deletes, chat>>

\* the texts and the replies of the calls between two loads
RulesCalls == {"s1"} \X { <<"a","b"," ","c","d">>, <<"7"," ","b"," ","c">> }
RulesReplies == {"s1"} \X { P1 \o <<" ">> \o B1 }

NextRules ==
  \/ \E disk \in Disks : reload("t1", disk)
  \/ \E disk \in Disks : validate("t1", disk)
  \/ SanitizeSteps("t1", RulesCalls)
  \/ \E c \in RulesReplies : ReconcileBegin("t1", c[1], c[2], FALSE)
  \/ ReconcileStep("t1")

SpecRules == Init /\ [][NextRules]_vars

(***************************************************************************)
(* The endpoints around a chat turn (main.py): sessions deleted, logging    *)
(* switched and lookups made between the turns of two sessions.             *)
(***************************************************************************)
ApiSessions == {"s1", "s2"}

\* get_sessions: the ids listed
get_sessions == chat.sessions

\* get_messages: 404 for a session that has no record, else its rows
get_messages(session_id) ==
  IF session_id \notin chat.sessions THEN [status |-> 404, rows |-> <<>>]
  ELSE [status |-> 200, rows |-> SessionRows(chat.messages, session_id)]

\* get_audit_event: 404 when logging is disabled or no event has the id
get_audit_event(event_id) ==
  IF ~chat.logging_enabled THEN [status |-> 404, rows |-> {}]
  ELSE LET rows == {a \in chat.audit : a.id = event_id}
       IN  IF rows = {} THEN [status |-> 404, rows |-> {}]
           ELSE [status |-> 200, rows |-> rows]

\* update_config with logging_enabled in the payload
update_config(logging_enabled) ==
  /\ chat.logging_enabled # logging_enabled
  /\ chat' = [chat EXCEPT !.logging_enabled = logging_enabled]
  /\ UNCHANGED <<engine_state, ledger, now, th, assigned, issued, deletes, loaded>>


ApiRequests ==
  { [session |-> x, model |-> "m1", message |-> m, file_ids |-> <<>>,
     response_mode |-> "chat"] :
      x \in ApiSessions, m \in { <<"a","b"," ","c","d">>, <<"7"," ","a","b">> } }

ApiReplies == { P1 \o <<" ">> \o B1, <<"n","o">> }

InitApi ==
  /\ engine_state = DefaultState
  /\ ledger = {}
  /\ now = 0
  /\ th = [t \in Threads |-> IdleThread]
  /\ assigned = {}
  /\ issued = <<>>
  /\ deletes = 0
  /\ chat = [NoChat EXCEPT !.sessions = ApiSessions]
  /\ loaded = NoLoad

NextApi ==
  \/ \E request \in ApiRequests : TurnBegin(request)
  \/ Apply("t1")
  \/ Count("t1")
  \/ Insert("t1")
  \/ StoreUser
  \/ ProviderReplies
  \/ ReconcileStep("t1")
  \/ Finish
  \/ TurnOver /\ Quiet /\ \E x \in ApiSessions : delete_session(x)
  \/ TurnOver /\ Quiet /\ \E flag \in BOOLEAN : update_config(flag)
  \/ TurnOver /\ \E x \in ApiSessions, reply \in ApiReplies :
                    ReconcileBegin("t1", x, reply, FALSE)

SpecApi == InitApi /\ [][NextApi]_vars

(***************************************************************************)
(*   SpecTwice sanitize applied to its own output: caller t1 runs it on a  *)
(*            text, and caller t2 runs it, on the same session and the     *)
(*            ledger t1 has left, on the sanitized text t1 returned.       *)
(***************************************************************************)
\* a list whose term is matched inside words too (word_boundary: false)
inner ==
  [id |-> "inner", rule_type |-> "list", category |-> BUSINESS, action |-> "tokenize",
   priority |-> 95, case_sensitive |-> FALSE, word_boundary |-> FALSE,
   pattern |-> NoPattern, replacement |-> <<>>,
   terms |-> << <<"a","b">> >>]

TwiceRulesets ==
  { <<pin_regex, clients>>,
    <<pin_regex, inner>>,
    <<inner>>,
    <<phrases, clients>>,
    <<word_regex, clients>> }

TwiceTexts ==
  { <<"7","a","b">>,
    <<"a","b","7">>,
    <<"7"," ","a","b">>,
    <<"a","b"," ","c","d">>,
    <<"a","b"," ","A","B">>,
    <<"c","d"," ","7">>,
    <<"x","a","b"," ","c","d">> }

TwiceCalls == {"s1"} \X TwiceTexts

InitTwice ==
  /\ engine_state \in {[DefaultState EXCEPT !.rules = rules] : rules \in TwiceRulesets}
  /\ ledger = {}
  /\ now = 0
  /\ th = [t \in Threads |-> IdleThread]
  /\ assigned = {}
  /\ issued = <<>>
  /\ deletes = 0
  /\ chat = NoChat
  /\ loaded = NoLoad

FirstPass ==
  /\ th["t1"].pc # "done" /\ th["t2"].pc = "idle"
  /\ SanitizeSteps("t1", TwiceCalls)

SecondPass ==
  /\ th["t1"].pc = "done"
  /\ \/ /\ th["t2"].pc = "idle"
        /\ SanitizeBegin("t2", th["t1"].session, th["t1"].sanitized)
     \/ Apply("t2")
     \/ Count("t2")
     \/ Insert("t2")

NextTwice == FirstPass \/ SecondPass

SpecTwice == InitTwice /\ [][NextTwice]_vars

(***************************************************************************)
(*   SpecRace one sanitize call of caller t1, begun on a ledger earlier    *)
(*            calls have left, while the calls of caller t2 on the same    *)
(*            session run beside it, statement by statement.               *)
(***************************************************************************)
\* sanitize run with no other statement between its own: the loop over
\* selected from match n on, (session_id, text) the call, rows the ledger
RECURSIVE sanitize_alone(_, _, _, _, _, _)
sanitize_alone(session_id, text, selected, n, cursor, rows) ==
  IF n > Len(selected) THEN [ok |-> TRUE, text |-> Slice(text, cursor, Len(text))]
  ELSE LET match == selected[n]
           rule == match.rule
           normalized_category == normalize_category(rule.category)
           value_hash == ValueHash(normalized_category, match.value)
           found == SelectByValue(rows, session_id, value_hash, normalized_category)
           goc == [value |-> match.value, value_hash |-> value_hash,
                   category |-> normalized_category,
                   token |-> FormatToken(normalized_category,
                                         NextIndex(rows, session_id, normalized_category))]
           row == NewRow(session_id, goc, now)
           replacement == IF rule.action # "tokenize" THEN LocalReplacement(rule, match.value)
                          ELSE IF found # {} THEN (CHOOSE x \in found : TRUE).token
                          ELSE goc.token
           inserts == rule.action = "tokenize" /\ found = {}
           rest == sanitize_alone(session_id, text, selected, n + 1, match.end,
                                  IF inserts THEN rows \cup {row} ELSE rows)
       IN  IF inserts /\ ~UniqueOk(rows, row) THEN [ok |-> FALSE, text |-> <<>>]
           ELSE [ok |-> rest.ok,
                 text |-> Slice(text, cursor, match.start) \o replacement \o rest.text]

RaceCall ==
  /\ th["t1"].pc = "idle" /\ ledger = Base(ledger)
  /\ \E c \in DetCalls : SanitizeBegin("t1", c[1], c[2])

RaceSteps == Apply("t1") \/ Count("t1") \/ Insert("t1")

RaceOther == SanitizeSteps("t2", SanitizeCalls)

NextRace == RaceCall \/ RaceSteps \/ RaceOther

SpecRace == InitDet /\ [][NextRace]_vars

(***************************************************************************)
(*   SpecReload sanitize of caller t1 with its scan taken rule by rule,    *)
(*            while caller t2 reloads the ruleset from the disk: before    *)
(*            the call and during its scan, the part that reads rules.     *)
(***************************************************************************)
\* with self._lock: rules_snapshot = list(self._state.rules)
ScanBegin(t, session_id, text) ==
  /\ Free(t)
  /\ text # <<>>
  /\ th' = [th EXCEPT ![t] =
              [IdleThread EXCEPT !.op = "sanitize", !.session = session_id,
                                 !.text = text, !.pc = "scan", !.k = 1,
                                 !.rules_snapshot = engine_state.rules]]
  /\ UNCHANGED <<engine_state, ledger, now, assigned, issued, deletes, chat, loaded>>

\* a loop that takes its rules from the state of the engine as it goes
ScannedRuleLive(r, state) ==
  IF r.k <= Len(state.rules) THEN state.rules[r.k] ELSE r.rules_snapshot[r.k]
\* for rule in rules_snapshot: the rule of this round of the loop
ScannedRule(r, state) == r.rules_snapshot[r.k]

\* one round of the loop over the rules; after the last, _resolve_overlaps,
\* the sort by start and the return of a text in which nothing matched
ScanRule(t) ==
  LET r == th[t]
      candidates == r.selected \o find_candidates(r.text, <<ScannedRule(r, engine_state)>>, 1)
      resolved == resolve_overlaps(candidates)
      selected == StableSort(resolved, Len(resolved), FALSE)
  IN  /\ r.pc = "scan"
      /\ th' = [th EXCEPT ![t] =
                  IF r.k > Len(r.rules_snapshot)
                  THEN [r EXCEPT !.pc = "done", !.sanitized = r.text, !.fresh = TRUE]
                  ELSE IF r.k < Len(r.rules_snapshot)
                  THEN [r EXCEPT !.selected = candidates, !.k = r.k + 1]
                  ELSE IF selected = <<>>
                  THEN [r EXCEPT !.pc = "done", !.selected = <<>>, !.sanitized = r.text,
                                 !.fresh = TRUE]
                  ELSE [r EXCEPT !.pc = "apply", !.selected = selected, !.k = 1]]
      /\ UNCHANGED <<engine_state, ledger, now, assigned, issued, deletes, chat, loaded>>

ReloadDisks == {disk \in Disks : disk.exists /\ disk.parsed # "malformed"}

NextReload ==
  \/ \E c \in RulesCalls : ScanBegin("t1", c[1], c[2])
  \/ ScanRule("t1")
  \/ Apply("t1")
  \/ Count("t1")
  \/ Insert("t1")
  \/ th["t1"].pc \in {"idle", "scan"} /\ \E disk \in ReloadDisks : reload("t2", disk)

SpecReload == Init /\ [][NextReload]_vars

(***************************************************************************)
(*   SpecCascade one caller under a ruleset with a rule that tokenizes     *)
(*            text in angle brackets, so that a token written in a         *)
(*            message becomes the stored value of another token, and       *)
(*            under one whose two categories hold values that differ in    *)
(*            letter case only.                                            *)
(***************************************************************************)
\* <[A-Z0-9_]+> , case sensitive, of category BUSINESS
tags ==
  [id |-> "tags", rule_type |-> "regex", category |-> BUSINESS, action |-> "tokenize",
   priority |-> 120, case_sensitive |-> TRUE, word_boundary |-> TRUE,
   pattern |-> [valid |-> TRUE, error |-> "none",
                elems |-> <<[q |-> "1", cls |-> {"<"}], [q |-> "+", cls |-> TokenClass],
                            [q |-> "1", cls |-> {">"}]>>],
   replacement |-> <<>>, terms |-> <<>>]

\* a list of category CODE
codes ==
  [id |-> "codes", rule_type |-> "list", category |-> CODE, action |-> "tokenize",
   priority |-> 95, case_sensitive |-> FALSE, word_boundary |-> TRUE,
   pattern |-> NoPattern, replacement |-> <<>>,
   terms |-> << <<"c","d">>, <<"a","b">> >>]

\* \b[A-Z]+\b , case sensitive, of category CODE
upper_regex ==
  [id |-> "upper_regex", rule_type |-> "regex", category |-> CODE, action |-> "tokenize",
   priority |-> 120, case_sensitive |-> TRUE, word_boundary |-> TRUE,
   pattern |-> [valid |-> TRUE, error |-> "none",
                elems |-> <<[q |-> "b", cls |-> {}], [q |-> "+", cls |-> UpperChars],
                            [q |-> "b", cls |-> {}]>>],
   replacement |-> <<>>, terms |-> <<>>]

\* a case-sensitive list of category BUSINESS
lower_list ==
  [id |-> "lower_list", rule_type |-> "list", category |-> BUSINESS, action |-> "tokenize",
   priority |-> 95, case_sensitive |-> TRUE, word_boundary |-> TRUE,
   pattern |-> NoPattern, replacement |-> <<>>,
   terms |-> << <<"a","b">> >>]

CascadeRulesets == { <<tags, codes>>, <<upper_regex, lower_list>> }

K1 == FormatToken(CODE, 1)
K2 == FormatToken(CODE, 2)

CascadeCalls ==
  {"s1"} \X { <<"c","d">>,
              <<"a","b"," ","C","D">>,
              <<"a","b"," ","A","B">>,
              K1 \o <<" ","c","d">>,
              <<"a","b"," ">> \o K2,
              K1 }

CascadeReplies ==
  {"s1"} \X { <<"x"," ">> \o B1,
              B1 \o <<" ">> \o K1 \o <<" ">> \o K1,
              K1 \o K2 \o <<" ">> \o K1,
              B2 \o <<" ">> \o FormatToken(CODE, 3) }

InitCascade ==
  /\ engine_state \in {[DefaultState EXCEPT !.rules = rules] : rules \in CascadeRulesets}
  /\ ledger = {}
  /\ now = 0
  /\ th = [t \in Threads |-> IdleThread]
  /\ assigned = {}
  /\ issued = <<>>
  /\ deletes = 0
  /\ chat = NoChat
  /\ loaded = NoLoad

NextCascade ==
  \/ SanitizeSteps("t1", CascadeCalls)
  \/ ReconcileSteps("t1", CascadeReplies)

SpecCascade == InitCascade /\ [][NextCascade]_vars

(***************************************************************************)
(*   SpecNever one caller on an engine constructed from a ruleset file     *)
(*            that declares never_reconcile_categories, declares it        *)
(*            empty, or leaves it out, under the settings of an            *)
(*            environment with or without NEVER_RECONCILE_CATEGORIES.      *)
(***************************************************************************)
\* the ruleset document without categories in never_reconcile_categories:
\* what ruleset_data.get("never_reconcile_categories", []) gives both for a
\* document that declares [] and for one without the key
Document3 == [Document1 EXCEPT !.never_reconcile_categories = <<>>]

\* the ruleset files: declared tells whether the document has the key
NeverDisks ==
  { [exists |-> TRUE, suffix |-> ".yaml", parsed |-> "object", data |-> Document1,
     files |-> <<clients_txt>>, declared |-> TRUE],
    [exists |-> TRUE, suffix |-> ".yaml", parsed |-> "object", data |-> Document3,
     files |-> <<clients_txt>>, declared |-> TRUE],
    [exists |-> TRUE, suffix |-> ".yaml", parsed |-> "object", data |-> Document3,
     files |-> <<clients_txt>>, declared |-> FALSE] }

\* never_reconcile of load_settings: the default, and NEVER_RECONCILE_CATEGORIES=pii
NeverSettings == { SettingsNever, { <<"p","i","i">> } }

\* RuleEngine.__init__: reload() on the disk, under the settings
InitNever ==
  /\ \E disk \in NeverDisks, settings_never \in NeverSettings :
       /\ engine_state = load_ruleset_from(disk, settings_never).state
       /\ loaded = [op |-> "init", ok |-> TRUE, raised |-> FALSE, returned |-> <<>>,
                    before |-> DefaultState, disk |-> disk,
                    settings_never |-> settings_never]
  /\ ledger = {}
  /\ now = 0
  /\ th = [t \in Threads |-> IdleThread]
  /\ assigned = {}
  /\ issued = <<>>
  /\ deletes = 0
  /\ chat = NoChat

NextNever ==
  \/ SanitizeSteps("t1", SanitizeCalls)
  \/ ReconcileSteps("t1", ReconcileCalls)

SpecNever == InitNever /\ [][NextNever]_vars

(***************************************************************************)
(* SpecNames: sanitize under a ruleset whose one list of names is declared *)
(*            with include_reversed_word_order, over lists that hold the   *)
(*            reversed form of a name already, in another case or not.     *)
(***************************************************************************)
NameLists ==
  { << <<"a","b"," ","c","d">> >>,
    << <<"a","b"," ","c","d">>, <<"C","D"," ","A","B">> >>,
    << <<"a","b"," "," ","c","d">>, <<"e","f">> >>,
    << <<"a"," ","b"," ","c">> >>,
    << <<"a","b"," ","a","b">> >> }

names_txt(lines) ==
  [name |-> "lists/names.txt", stem |-> "names", suffix |-> ".txt", exists |-> TRUE,
   lines |-> lines]

NameItem(case_sensitive) ==
  [ListItem("lists/names.txt") EXCEPT !.case_sensitive = case_sensitive,
                                      !.include_reversed_word_order = TRUE]

NameDisks ==
  { [exists |-> TRUE, suffix |-> ".yaml", parsed |-> "object",
     data |-> [EmptyDocument EXCEPT !.lists = << NameItem(case_sensitive) >>],
     files |-> << names_txt(lines) >>] :
    lines \in NameLists, case_sensitive \in BOOLEAN }

NameTexts ==
  { <<"c","d"," ","a","b">>, <<"x"," ","c","d"," ","a","b">>,
    <<"c"," ","b"," ","a">>, <<"a","b"," ","c","d">>, <<"e","f">> }

NameCalls == {<<session_id, text>> : session_id \in Sessions, text \in NameTexts}

\* the engine as __init__ leaves it on one of the disks
InitNames ==
  /\ engine_state \in {load_ruleset(disk).state : disk \in NameDisks}
  /\ ledger = {}
  /\ now = 0
  /\ th = [t \in Threads |-> IdleThread]
  /\ assigned = {}
  /\ issued = <<>>
  /\ deletes = 0
  /\ chat = NoChat
  /\ loaded = NoLoad

NextNames == SanitizeSteps("t1", NameCalls)

SpecNames == InitNames /\ [][NextNames]_vars

(***************************************************************************)
(* SpecCard: one caller under a ruleset whose document names the category  *)
(*           of its list of clients in never_reconcile_categories; the     *)
(*           category is pii, or one with a character that the token       *)
(*           grammar does not have.                                        *)
(***************************************************************************)
CardCategories == { <<"p","i","i">>, <<"a","-","b">>, <<"a"," ","b">> }

CardDocument(category) ==
  [version |-> 2, mode |-> "enforce", never_reconcile_categories |-> << category >>,
   rules |-> <<>>,
   lists |-> << [ListItem("lists/clients.txt") EXCEPT !.category = category] >>]

CardDisks ==
  { [exists |-> TRUE, suffix |-> ".yaml", parsed |-> "object",
     data |-> CardDocument(category), files |-> <<clients_txt>>] :
    category \in CardCategories }

CardReplies ==
  {"s1"} \X { FormatToken(<<"A","_","B">>, 1) \o <<" ">> \o FormatToken(<<"A","_","B">>, 2),
              <<"x"," ">> \o P1 }

InitCard ==
  /\ engine_state \in {load_ruleset(disk).state : disk \in CardDisks}
  /\ ledger = {}
  /\ now = 0
  /\ th = [t \in Threads |-> IdleThread]
  /\ assigned = {}
  /\ issued = <<>>
  /\ deletes = 0
  /\ chat = NoChat
  /\ loaded = NoLoad

NextCard ==
  \/ SanitizeSteps("t1", SanitizeCalls)
  \/ ReconcileSteps("t1", CardReplies)

SpecCard == InitCard /\ [][NextCard]_vars

(***************************************************************************)
(* SpecIso: one caller at a time on two sessions of one ledger: the        *)
(*          sessions tokenize the same values in different orders, so the  *)
(*          same token text stands for different values in them.           *)
(***************************************************************************)
IsoCalls == ApiSessions \X {<<"a","b">>, <<"c","d">>}

IsoReplies == ApiSessions \X {<<"x"," ">> \o B1, B2 \o B1 \o <<" ">> \o B2}

NextIso ==
  \/ SanitizeSteps("t1", IsoCalls)
  \/ ReconcileSteps("t1", IsoReplies)

SpecIso == Init /\ [][NextIso]_vars

(***************************************************************************)
(* SpecPolicy: a reload of caller t2 while a reconcile call of caller t1   *)
(*             is between two tokens of its text; the ruleset loaded       *)
(*             holds back another category than the one in force.          *)
(***************************************************************************)
\* a document that holds back the category of the clients, and not PII
Document4 == [Document1 EXCEPT !.never_reconcile_categories = << BUSINESS >>]

PolicyDisks ==
  { [exists |-> TRUE, suffix |-> ".yaml", parsed |-> "object", data |-> doc,
     files |-> <<clients_txt>>] : doc \in {Document1, Document4} }

NextPolicy ==
  \/ SanitizeSteps("t1", SanitizeCalls)
  \/ ReconcileSteps("t1", ReconcileCalls)
  \/ /\ th["t1"].pc = "recon"
     /\ loaded.op # "reload"
     /\ \E disk \in PolicyDisks : reload("t2", disk)

SpecPolicy == Init /\ [][NextPolicy]_vars

(***************************************************************************)
(* SpecOrphan: the requests of SpecApi with delete_session served at any   *)
(*             time, also between two statements of a chat turn: the       *)
(*             endpoints run on the threads of the server and share no     *)
(*             lock beyond the one statement of Database.execute.          *)
(***************************************************************************)
NextOrphan ==
  \/ \E request \in ApiRequests : TurnBegin(request)
  \/ Apply("t1")
  \/ Count("t1")
  \/ Insert("t1")
  \/ StoreUser
  \/ ProviderReplies
  \/ ProviderFails
  \/ ReconcileStep("t1")
  \/ Finish
  \/ \E x \in ApiSessions : delete_session(x)

SpecOrphan == InitApi /\ [][NextOrphan]_vars

(***************************************************************************)
(* Properties.                                                             *)
(***************************************************************************)
\* the tokens of a text, and how often the tokens of a set occur in it
TokensOf(text) == SeqToSet(FindTokens(text, 0))

RECURSIVE SumOccurrences(_, _)
SumOccurrences(text, S) ==
  IF S = {} THEN 0
  ELSE LET x == CHOOSE y \in S : TRUE
       IN  CountOccurrences(text, x, 0) + SumOccurrences(text, S \ {x})

\* the category, in upper case, is one of never_reconcile
Never(category) == upper(category) \in engine_state.never_reconcile_categories

\* every match of the call was tokenized, in a category reconcile may restore
Reversible(r) ==
  \A i \in 1..Len(r.selected) :
     /\ r.selected[i].rule.action = "tokenize"
     /\ ~Never(r.selected[i].rule.category)
     /\ ~Never(normalize_category(r.selected[i].rule.category))

\* C1: round trip. When every match of a sanitize call is tokenized in a
\* category outside never_reconcile, reconcile of the sanitized text, called
\* in the same session right after sanitize returned, gives back the text
\* character for character.
C1_RoundTrip ==
  \A t \in Threads :
     (th[t].pc = "done" /\ th[t].op = "reconcile" /\ th[t].rt /\ Reversible(th[t]))
       => th[t].reconciled = th[t].text

\* C2: never-reconcile invariance. In every state of a reconcile call, each
\* token of its input whose category is in never_reconcile occurs in the
\* restored text as often as in the input, replaced_count counts no more than
\* the occurrences of the other tokens, and the value the ledger holds for the
\* token is not among the decoded values.
C2_NeverReconcile ==
  \A t \in Threads :
     th[t].op = "reconcile" =>
       LET r == th[t]
           held == {x \in TokensOf(r.rtext) : Never(TokenCategory(x))}
       IN  /\ \A x \in held :
                /\ CountOccurrences(r.reconciled, x, 0) = CountOccurrences(r.rtext, x, 0)
                /\ (r.pc = "recon" \/ r.fresh) =>
                     \A row \in SelectByToken(ledger, r.session, x) :
                        decrypt_value(row.original_value_enc) \notin SeqToSet(r.decoded_values)
           /\ r.replaced_count <= SumOccurrences(r.rtext, TokensOf(r.rtext) \ held)

\* a reconcile has finished on a text that holds a never_reconcile token with
\* a live ledger row next to a token it restored
C2_Witness ==
  \E t \in Threads :
     /\ th[t].pc = "done" /\ th[t].op = "reconcile" /\ th[t].fresh
     /\ th[t].replaced_count >= 1
     /\ \E x \in TokensOf(th[t].rtext) :
          /\ Never(TokenCategory(x))
          /\ \E row \in SelectByToken(ledger, th[t].session, x) : ~Expired(row, now)

\* the step is the return of a _get_or_create_token of caller t
Returns(t) ==
  /\ th[t].op = "sanitize" /\ th[t].pc \in {"apply", "insert"}
  /\ th[t].selected[th[t].k].rule.action = "tokenize"
  /\ Len(th'[t].results) = Len(th[t].results) + 1

\* C3: idempotent tokens. With the calls of a session made one after the
\* other, the first get_or_create of a (session, value, category) reports
\* created, and every later one returns the token of the first, reports not
\* created and leaves the ledger as it was.
C3_Idempotent ==
  [][\A t \in Threads :
       Returns(t) =>
         LET match == th[t].selected[th[t].k]
             category == normalize_category(match.rule.category)
             key == <<th[t].session, ValueHash(category, match.value)>>
             result == th'[t].results[Len(th'[t].results)]
         IN  IF key \in DOMAIN issued
             THEN /\ result.replacement = issued[key]
                  /\ ~result.created
                  /\ ledger' = ledger
             ELSE /\ result.created
                  /\ Cardinality(ledger') = Cardinality(ledger) + 1]_vars

\* a sanitize call has returned a token that an earlier call created
C3_Witness ==
  \E t \in Threads :
     /\ th[t].pc = "done" /\ th[t].op = "sanitize"
     /\ \E i \in 1..Len(th[t].results) :
          /\ th[t].results[i].action = "tokenize"
          /\ ~th[t].results[i].created
          /\ <<th[t].session, th[t].results[i].replacement>> \in
               {<<a[1], a[2]>> : a \in assigned}

\* C4: token grammar. Every token a sanitize call was given by get_or_create
\* matches <TKN_[A-Z0-9_]+_[0-9]{3}>, and the recognizer of reconcile finds it
\* in the sanitized text.
C4_TokenGrammar ==
  \A t \in Threads :
     th[t].op = "sanitize" =>
       \A i \in 1..Len(th[t].results) :
          th[t].results[i].action = "tokenize" =>
            /\ MatchesGrammar(th[t].results[i].replacement)
            /\ th[t].pc = "done" =>
                 th[t].results[i].replacement \in TokensOf(th[t].sanitized)

\* C5: tokens are never recycled. No token of a session has ever been
\* inserted for two different values.
C5_NeverRecycled ==
  \A a, b \in assigned : (a[1] = b[1] /\ a[2] = b[2]) => a[3] = b[3]

\* C6: ledger uniqueness. No two rows share (session_id, token), and no two
\* rows share (session_id, value_hash, category).
C6_LedgerUnique ==
  \A a, b \in ledger :
     (a # b /\ a.session_id = b.session_id) =>
       /\ a.token # b.token
       /\ ~(a.value_hash = b.value_hash /\ a.category = b.category)

\* the constraints have refused an INSERT while the ledger holds several rows
C6_Witness ==
  /\ \E t \in Threads : th[t].pc = "failed"
  /\ \E a, b \in ledger : a # b /\ a.session_id = b.session_id /\ a.category = b.category

\* C7: expiry. When reconcile has returned and the clock has not moved since,
\* a token outside never_reconcile was restored exactly when the ledger holds
\* a row for it whose expires_at is strictly greater than the current time;
\* otherwise it stands verbatim and is reported missing.
C7_Expiry ==
  \A t \in Threads :
     (th[t].pc = "done" /\ th[t].op = "reconcile" /\ th[t].fresh) =>
       \A x \in TokensOf(th[t].rtext) :
          ~Never(TokenCategory(x)) =>
            LET live == \E row \in SelectByToken(ledger, th[t].session, x) :
                           row.expires_at > now
            IN  IF live
                THEN x \notin SeqToSet(th[t].missing)
                ELSE /\ x \in SeqToSet(th[t].missing)
                     /\ CountOccurrences(th[t].reconciled, x, 0)
                          = CountOccurrences(th[t].rtext, x, 0)

\* C8: get_or_create is atomic. Two callers about to insert, in one session
\* and one category, the tokens of two different values never hold the same
\* token.
C8_Atomic ==
  \A t1, t2 \in Threads :
     (/\ t1 # t2
      /\ th[t1].pc = "insert" /\ th[t2].pc = "insert"
      /\ th[t1].session = th[t2].session
      /\ th[t1].goc.category = th[t2].goc.category
      /\ th[t1].goc.value_hash # th[t2].goc.value_hash)
       => th[t1].goc.token # th[t2].goc.token

\* C9: concurrent calls on one value. No sanitize call fails on a value that
\* another call of the session has inserted under the very token the failed
\* call had computed.
C9_SameValue ==
  \A t \in Threads :
     th[t].pc = "failed" =>
       ~\E row \in ledger :
          /\ row.session_id = th[t].session
          /\ row.value_hash = th[t].goc.value_hash
          /\ row.category = th[t].goc.category
          /\ row.token = th[t].goc.token

\* C10: retry once. A get_or_create fails only after two uniqueness
\* violations in a row, the second one met by its retry.
C10_RetryOnce ==
  \A t \in Threads : th[t].pc = "failed" => th[t].conflicts >= 2

\* the candidates of a call, in the order sanitize found them (it scans no
\* empty text)
CandidatesOf(r) ==
  IF r.text = <<>> \/ r.pc = "failed" THEN <<>>
  ELSE find_candidates(r.text, engine_state.rules, 1)

\* C11: non-overlap. The matches a sanitize call walks are pairwise disjoint
\* and their starts increase strictly.
C11_NonOverlap ==
  \A t \in Threads :
     th[t].op = "sanitize" =>
       \A i, j \in 1..Len(th[t].selected) :
          i < j => /\ th[t].selected[i].end <= th[t].selected[j].start
                   /\ th[t].selected[i].start < th[t].selected[j].start

\* the matches the call accepted, and what the claim's order compares
AcceptedOf(r) == SeqToSet(r.selected)
SpanLength(c) == c.end - c.start
SameKey(a, b) ==
  a.start = b.start /\ SpanLength(a) = SpanLength(b) /\ a.rule.priority = b.rule.priority

C13_Deterministic ==
  (/\ th["t1"].pc = "done" /\ th["t1"].op = "sanitize"
   /\ th["t2"].pc = "done" /\ th["t2"].op = "sanitize"
   /\ th["t1"].text = th["t2"].text /\ th["t1"].session = th["t2"].session)
    => /\ th["t1"].sanitized = th["t2"].sanitized
       /\ rules_triggered(th["t1"]) = rules_triggered(th["t2"])
       /\ transformations(th["t1"]) = transformations(th["t2"])
       /\ th["t1"].tokens_created = th["t2"].tokens_created

\* both runs are over, each has created a token, and the clock has moved
\* between them
C13_Witness ==
  /\ th["t1"].pc = "done" /\ th["t2"].pc = "done"
  /\ th["t1"].text = th["t2"].text
  /\ th["t1"].tokens_created >= 1 /\ th["t2"].tokens_created >= 1
  /\ \E r \in ledger : r.created_at = 2

Before(log, first, then) ==
  \A i \in 1..Len(log) : log[i] = then => \E j \in 1..(i - 1) : log[j] = first

Instructions ==
  {build_output_format_instruction(e) :
     e \in {FORCED_OUTPUT_EXTENSIONS[m] : m \in DOMAIN FORCED_OUTPUT_EXTENSIONS} \cup {PDF}}

\* the messages of a call that come from the rows of the session
Forwarded(call) == SelectSeq(call, LAMBDA m : m.role # "system")

C15_TurnCompletes ==
  (chat.turn.reply # <<>> /\ TurnOver) =>
    /\ chat.turn.pc = "returned"
    /\ Len(chat.messages) >= 2
    /\ chat.messages[Len(chat.messages) - 1].role = "user"
    /\ chat.messages[Len(chat.messages)].role = "assistant"
    /\ chat.turn.response[1].content = chat.turn.sanitized
    /\ chat.turn.response[2].content = chat.messages[Len(chat.messages)].content

\* C16: after a reload or a validate that failed (ruleset file missing,
\* malformed, not an object, of an unsupported format, or a declared list
\* file missing or unreadable) the state installed in the engine (rules,
\* version, mode, never_reconcile_categories) is the one installed before
\* the call, and a sanitize call made after it selects its matches with the
\* rules of that state.
C16_FailedLoadKeepsState ==
  (loaded.op \in {"reload", "validate"} /\ ~loaded.ok) =>
    /\ engine_state = loaded.before
    /\ engine_state.rules = loaded.before.rules
    /\ engine_state.version = loaded.before.version
    /\ engine_state.mode = loaded.before.mode
    /\ engine_state.never_reconcile_categories = loaded.before.never_reconcile_categories
    /\ th["t1"].op = "sanitize" =>
         th["t1"].selected = IF th["t1"].text = <<>> THEN <<>>
                             ELSE SelectMatches(th["t1"].text, loaded.before.rules)

\* a load that succeeded installed the second document, a later one failed,
\* and a sanitize call made after it has replaced matches
C16_Witness ==
  /\ loaded.op = "reload" /\ ~loaded.ok /\ loaded.raised
  /\ loaded.before.version = 3
  /\ loaded.before.mode = "monitor"
  /\ th["t1"].op = "sanitize" /\ th["t1"].pc = "done"
  /\ th["t1"].selected # <<>>

\* C17: validate does not raise; when the load failed it returns
\* (false, 0, 0, reason) and leaves the state installed; when the load
\* succeeded it returns (true, rule_count, list_count, "Valid ruleset") with
\* the number of rules and of list rules of the state now installed.
C17_ValidateReturns ==
  loaded.op = "validate" =>
    /\ ~loaded.raised
    /\ Len(loaded.returned) = 4
    /\ loaded.returned[1] = loaded.ok
    /\ loaded.ok =>
         /\ loaded.returned[2] = Len(engine_state.rules)
         /\ loaded.returned[3] =
              Cardinality({i \in 1..Len(engine_state.rules) :
                             engine_state.rules[i].rule_type = "list"})
         /\ loaded.returned[4] = "Valid ruleset"
    /\ ~loaded.ok =>
         /\ loaded.returned[2] = 0
         /\ loaded.returned[3] = 0
         /\ loaded.returned[4] \in
              {"Ruleset not found", "yaml.YAMLError", "json.JSONDecodeError",
               "Ruleset must be an object", "Unsupported ruleset format",
               "List file not found", "Unsupported list format"}
         /\ engine_state = loaded.before

\* validate has installed a ruleset of three rules, two of them list rules,
\* and returned these counts
C17_Witness ==
  /\ loaded.op = "validate" /\ loaded.ok
  /\ loaded.returned = <<TRUE, 3, 2, "Valid ruleset">>
  /\ Len(engine_state.rules) = 3

\* validate has failed on a list file that is missing and returned the reason
C17_WitnessFailed ==
  /\ loaded.op = "validate" /\ ~loaded.ok
  /\ loaded.returned = <<FALSE, 0, 0, "List file not found">>
  /\ Len(engine_state.rules) > 0

Compiles(rule) == rule.rule_type = "regex" => rule.pattern.valid

\* C18: a regex rule whose pattern does not compile gives no candidate and
\* does not make sanitize fail: the matches sanitize selects, and so what it
\* returns, are those it selects with the rule removed from the ruleset. It
\* fails: only re.error is caught, and a pattern whose repetition number is
\* too large raises OverflowError when it is compiled.
C18_BadPatternIgnored ==
  \A t \in Threads :
    th[t].op = "sanitize" =>
      /\ th[t].pc # "failed"
      /\ \A i \in 1..Len(th[t].selected) : Compiles(th[t].selected[i].rule)
      /\ th[t].selected =
           IF th[t].text = <<>> THEN <<>>
           ELSE SelectMatches(th[t].text, SelectSeq(engine_state.rules, Compiles))

\* C19: a match of a rule whose action is obfuscate is replaced by "ENC[",
\* the obfuscated value, "]", with created false, and its value is not
\* written in its place. It fails: _apply_action has no branch of that name
\* (its branch is simple_encrypt) and returns the value as it is.
C19_Obfuscate ==
  \A t \in Threads :
    th[t].op = "sanitize" =>
      \A i \in 1..Len(th[t].results) :
        th[t].results[i].action = "obfuscate" =>
          /\ th[t].results[i].replacement = simple_encrypt(th[t].results[i].value)
          /\ th[t].results[i].replacement # th[t].results[i].value
          /\ ~th[t].results[i].created

\* the (category, value) key the ledger files the i-th result of a call under
ResultKey(r, i) ==
  ValueHash(normalize_category(r.selected[i].rule.category), r.results[i].value)

\* C20: in one sanitize call the accepted occurrences of one value under a
\* tokenize rule all get one and the same token; tokens_created counts each
\* such value once if the session had no mapping for it before the call and
\* not at all if it had; transformations is the number of accepted matches.
C20_OneTokenPerValue ==
  \A t \in Threads :
    (th[t].op = "sanitize" /\ th[t].pc = "done") =>
      LET r == th[t]
          tokenized == {i \in 1..Len(r.results) : r.results[i].action = "tokenize"}
          keys == {ResultKey(r, i) : i \in tokenized}
          known == {row.value_hash : row \in {x \in Base(ledger) : x.session_id = r.session}}
      IN  /\ \A i, j \in tokenized :
                ResultKey(r, i) = ResultKey(r, j) =>
                  r.results[i].replacement = r.results[j].replacement
          /\ \A k \in keys :
                Cardinality({i \in tokenized : ResultKey(r, i) = k /\ r.results[i].created})
                  = IF k \in known THEN 0 ELSE 1
          /\ r.tokens_created = Cardinality(keys \ known)
          /\ transformations(r) = Len(r.results)
          /\ Len(r.results) = Len(r.selected)

\* a call on a text that holds a new value twice has returned: two equal
\* tokens, one token created, two transformations
C20_Witness ==
  /\ th["t1"].op = "sanitize" /\ th["t1"].pc = "done"
  /\ th["t1"].text = <<"c","d"," ","c","d">>
  /\ th["t1"].sanitized = B1 \o <<" ">> \o B1
  /\ th["t1"].tokens_created = 1
  /\ transformations(th["t1"]) = 2

\* the session has no row for the token, or one whose expires_at is in the past
Absent(session_id, token) ==
  \A row \in SelectByToken(ledger, session_id, token) : row.expires_at < now

\* C21: a reconcile miss is no error. A reconcile call returns whatever
\* tokens its text holds; a token outside never_reconcile with no row in the
\* session, or with a row whose expires_at is in the past, keeps all its
\* occurrences in the restored text and is listed once in missing; the other
\* tokens outside never_reconcile are restored and not listed; a token held
\* back by never_reconcile is not listed in missing.
C21_MissIsNoError ==
  \A t \in Threads :
    th[t].op = "reconcile" =>
      /\ th[t].pc # "failed"
      /\ (th[t].pc = "done" /\ th[t].fresh) =>
           LET r == th[t]
               listed(x) == Cardinality({i \in 1..Len(r.missing) : r.missing[i] = x})
           IN  \A x \in TokensOf(r.rtext) :
                 IF Never(TokenCategory(x)) THEN listed(x) = 0
                 ELSE IF Absent(r.session, x)
                 THEN /\ listed(x) = 1
                      /\ CountOccurrences(r.reconciled, x, 0)
                           = CountOccurrences(r.rtext, x, 0)
                 ELSE /\ listed(x) = 0
                      /\ CountOccurrences(r.reconciled, x, 0) = 0

\* a reconcile has returned on a text that holds twice a token the session
\* has no row for, and once a token it has a live row for: the first is
\* listed once and stands, the second was restored
C21_Witness ==
  /\ th["t1"].op = "reconcile" /\ th["t1"].pc = "done" /\ th["t1"].fresh
  /\ th["t1"].rtext = B2 \o B1 \o <<" ">> \o B2
  /\ th["t1"].missing = <<B2>>
  /\ th["t1"].replaced_count = 1
  /\ CountOccurrences(th["t1"].reconciled, B2, 0) = 2

\* a reconcile has returned on a text whose token has a row that expired:
\* the token stands and is listed
C21_WitnessExpired ==
  /\ th["t1"].op = "reconcile" /\ th["t1"].pc = "done" /\ th["t1"].fresh
  /\ \E x \in TokensOf(th["t1"].rtext) :
       /\ SelectByToken(ledger, "s1", x) # {}
       /\ Absent("s1", x)
       /\ x \in SeqToSet(th["t1"].missing)

RowsOf(rows, session_id) == {r \in rows : r.session_id = session_id}

\* what stands of a deleted session: nothing
Deleted(x) ==
  /\ x \notin get_sessions
  /\ get_messages(x).status = 404
  /\ SessionRows(chat.messages, x) = <<>>
  /\ RowsOf(ledger, x) = {}
  /\ RowsOf(chat.audit, x) = {}
  /\ (th["t1"].op = "reconcile" /\ th["t1"].pc = "done" /\ th["t1"].fresh
        /\ th["t1"].session = x) =>
       /\ th["t1"].reconciled = th["t1"].rtext
       /\ th["t1"].replaced_count = 0
       /\ \A token \in TokensOf(th["t1"].rtext) :
            ~Never(TokenCategory(token)) => token \in SeqToSet(th["t1"].missing)

\* a step that deletes a session leaves the rows of the other sessions
DeleteFrame ==
  \A x \in ApiSessions :
    x \notin (chat'.deleted \ chat.deleted) =>
      /\ RowsOf(ledger', x) = RowsOf(ledger, x)
      /\ SessionRows(chat'.messages, x) = SessionRows(chat.messages, x)
      /\ RowsOf(chat'.audit, x) = RowsOf(chat.audit, x)
      /\ (x \in chat'.sessions) = (x \in chat.sessions)

AuditIds == 0 .. MaxTurns

\* the step on which a chat turn that the provider answered comes to its end
TurnEnds == chat.turn.pc = "reconcile" /\ chat'.turn.pc # "reconcile"

\* C24: an audit event is stored for a chat turn exactly when logging is
\* enabled as the turn completes: disabled, the turn carries no audit_id,
\* writes no audit row and every audit lookup answers 404; enabled, the
\* audit_id the turn returns is the id of a stored event of its session.
\* It fails with logging enabled: the turn ends in the error of C15 before
\* the audit block, so no event is stored and no audit_id is returned.
C24_AuditIffLogging ==
  /\ [](~chat.logging_enabled =>
          \A event_id \in AuditIds : get_audit_event(event_id).status = 404)
  /\ [][TurnEnds =>
          IF chat.logging_enabled
          THEN /\ chat'.turn.audit_id # 0
               /\ \E a \in chat'.audit : a.id = chat'.turn.audit_id
               /\ \A a \in chat'.audit :
                    a.id = chat'.turn.audit_id => a.session_id = chat.turn.session
          ELSE /\ chat'.turn.audit_id = 0
               /\ chat'.audit = chat.audit]_vars

\* the well-formed tokens the rulesets of the model can issue
WellFormedTokens == {B1, B2, P1, FormatToken(CODE, 1)}

\* no rule of the ruleset has a match in a well-formed token
MatchesNoToken(rules) ==
  \A token \in WellFormedTokens :
    MatchesGrammar(token) /\ find_candidates(token, rules, 1) = <<>>

\* C23: under a ruleset none of whose rules matches a well-formed token,
\* sanitize applied to the sanitized text of a sanitize call of the same
\* session returns that text unchanged. It fails: a digit that stood against
\* a letter is at a word boundary once the letters are a token.
C23_SanitizeIdempotent ==
  ( /\ MatchesNoToken(engine_state.rules)
    /\ th["t1"].op = "sanitize" /\ th["t1"].pc = "done"
    /\ th["t2"].op = "sanitize" /\ th["t2"].pc = "done"
    /\ th["t2"].text = th["t1"].sanitized )
  => th["t2"].sanitized = th["t1"].sanitized

\* what the call of t1 returns when nothing runs beside it
Alone ==
  sanitize_alone(th["t1"].session, th["t1"].text,
                 SelectMatches(th["t1"].text, engine_state.rules), 1, 0, Base(ledger))

\* C25: the sanitized text of a sanitize call is fixed by its text, the
\* ruleset and the ledger at the start of the call, also when other sanitize
\* calls of the session insert mappings while it runs. It fails: the index of
\* a new token is counted when the match is reached, after rows other calls
\* have inserted, and an INSERT that loses the race ends the call in error.
C25_FunctionOfStart ==
  (th["t1"].op = "sanitize" /\ th["t1"].pc \in {"done", "failed"}) =>
    /\ Alone.ok
    /\ th["t1"].pc = "done"
    /\ th["t1"].sanitized = Alone.text

\* the same, for the calls that run with no other call in progress
C25_AloneAgrees ==
  (th["t1"].op = "sanitize" /\ th["t1"].pc \in {"done", "failed"}
     /\ th["t2"].pc = "idle") =>
    /\ Alone.ok
    /\ th["t1"].pc = "done"
    /\ th["t1"].sanitized = Alone.text

\* the call of t1 has left its scan
Scanned == th["t1"].op = "sanitize" /\ th["t1"].pc \in {"apply", "count", "insert", "done"}

\* C26: a sanitize call scans with one ruleset: the rules are copied, all of
\* them, from the state in force when the call takes its snapshot, and the
\* matches the call goes on with are those of that list of rules, whatever
\* reload installs while the scan runs.
C26_OneRuleset ==
  /\ [][\A t \in Threads :
          (th[t].pc # "scan" /\ th'[t].pc = "scan") =>
             th'[t].rules_snapshot = engine_state.rules]_vars
  /\ [](Scanned => th["t1"].selected =
                     SelectMatches(th["t1"].text, th["t1"].rules_snapshot))

\* a reload has put another list of rules in force after the call of t1 took
\* its snapshot and before its scan ended, and the call has gone on with the
\* matches of the old list, which are not those of the new one
C26_Witness ==
  /\ Scanned
  /\ th["t1"].selected # <<>>
  /\ loaded.op = "reload" /\ loaded.ok
  /\ loaded.before.rules = th["t1"].rules_snapshot
  /\ engine_state.rules # th["t1"].rules_snapshot
  /\ SelectMatches(th["t1"].text, engine_state.rules) # th["t1"].selected

\* reconcile would put the stored value in the place of token
Restorable(session_id, token) ==
  /\ ~NeverReconcile(TokenCategory(token), engine_state.never_reconcile_categories)
  /\ \E row \in SelectByToken(ledger, session_id, token) : ~Expired(row, now)

StoredValue(session_id, token) ==
  decrypt_value((CHOOSE row \in SelectByToken(ledger, session_id, token) : TRUE).original_value_enc)

\* the input from offset i on with each of its restorable tokens replaced by
\* its stored value, the values put in being left as they are
RECURSIVE Terminal(_, _, _)
Terminal(session_id, text, i) ==
  IF i >= Len(text) THEN <<>>
  ELSE LET e == TokenEndAt(text, i)
       IN  IF e # -1 /\ Restorable(session_id, Slice(text, i, e))
           THEN StoredValue(session_id, Slice(text, i, e)) \o Terminal(session_id, text, e)
           ELSE <<text[i + 1]>> \o Terminal(session_id, text, i + 1)

\* a reconcile call of caller t has returned and nothing has touched the
\* ledger or the clock since
Reconciled(t) == th[t].op = "reconcile" /\ th[t].pc = "done" /\ th[t].fresh

\* C27: the text reconcile puts in the place of a token is final: the
\* substitution of another token of the same call does not change it, also
\* when the stored value holds a token that stands elsewhere in the input.
\* It fails: each token is replaced in the text as it is after the tokens
\* before it, values put in included.
C27_DecodedIsTerminal ==
  \A t \in Threads :
    Reconciled(t) => th[t].reconciled = Terminal(th[t].session, th[t].rtext, 0)

\* the tokens of the input that reconcile restores
Restored(t) == {token \in TokensOf(th[t].rtext) : Restorable(th[t].session, token)}

\* C28: reconcile replaces every occurrence of each token of the input that
\* is outside never_reconcile and has a live row by the stored value;
\* replaced_count is the number of occurrences in the input of the tokens
\* restored, and decoded_values holds each restored value once.
\* It fails where a stored value holds a token of the input: the occurrences
\* are counted in the text as earlier substitutions have left it.
C28_ReplacesAndCounts ==
  \A t \in Threads :
    Reconciled(t) =>
      /\ \A token \in Restored(t) :
           CountOccurrences(Terminal(th[t].session, th[t].rtext, 0), token, 0)
             = CountOccurrences(th[t].reconciled, token, 0)
      /\ th[t].replaced_count = SumOccurrences(th[t].rtext, Restored(t))
      /\ SeqToSet(th[t].decoded_values) =
           {StoredValue(th[t].session, token) : token \in Restored(t)}
      /\ Len(th[t].decoded_values) = Cardinality(SeqToSet(th[t].decoded_values))

\* category is, letter case aside, one of the never_reconcile set in force
HeldBack(category) ==
  \E c \in engine_state.never_reconcile_categories : upper(c) = upper(category)

\* C29: the never_reconcile comparison ignores letter case: reconcile leaves
\* in place every token whose category equals, case aside, a category of the
\* set in force, whether the set came from the ruleset document or from the
\* settings. It fails for a set taken from the settings: the categories of
\* the document are put in upper case when loaded, those of the settings are
\* not, and the test is category.upper() in the set.
C29_NeverIgnoresCase ==
  \A t \in Threads :
    Reconciled(t) =>
      \A token \in TokensOf(th[t].rtext) :
        HeldBack(TokenCategory(token)) =>
          /\ CountOccurrences(th[t].reconciled, token, 0)
               = CountOccurrences(th[t].rtext, token, 0)
          /\ token \notin SeqToSet(th[t].missing)

\* the categories the document of the ruleset file lists, in upper case
DeclaredNever ==
  {upper(loaded.disk.data.never_reconcile_categories[i]) :
     i \in 1..Len(loaded.disk.data.never_reconcile_categories)}

\* C30: the default never_reconcile set of the settings is in force exactly
\* when the ruleset document leaves never_reconcile_categories out; a
\* document that declares the list, an empty one included, gets the
\* categories it declares and no other. It fails for a declared empty list:
\* the fallback is taken whenever the set read from the document is empty.
C30_DefaultIffOmitted ==
  loaded.op = "init" =>
    IF loaded.disk.declared
    THEN engine_state.never_reconcile_categories = DeclaredNever
    ELSE engine_state.never_reconcile_categories = loaded.settings_never

\* the text of a call outside its accepted spans and the replacements of the
\* spans, in order of start, from accepted match n on: a character of an
\* accepted span is never copied
RECURSIVE Spliced(_, _, _, _, _)
Spliced(text, selected, results, n, cursor) ==
  IF n > Len(selected) THEN Slice(text, cursor, Len(text))
  ELSE LET match == selected[n]
           beyond == IF match.end > cursor THEN match.end ELSE cursor
       IN  Slice(text, cursor, match.start) \o results[n].replacement
             \o Spliced(text, selected, results, n + 1, beyond)

\* C31: sanitize changes the accepted spans only: the sanitized text is, in
\* order of start, the text between the accepted matches unchanged and the
\* replacement of each accepted match, then the text after the last; a call
\* with no accepted match returns its text with transformations and
\* tokens_created 0 and inserts nothing.
\* It fails for an empty match accepted at the start of an accepted span:
\* the cursor goes back and the text of the span is copied after its token.
C31_OnlyAcceptedSpans ==
  \A t \in Threads :
    (th[t].op = "sanitize" /\ th[t].pc = "done") =>
      /\ th[t].sanitized =
           Spliced(th[t].text, th[t].selected, th[t].results, 1, 0)
      /\ th[t].selected = <<>> =>
           /\ th[t].sanitized = th[t].text
           /\ transformations(th[t]) = 0
           /\ th[t].tokens_created = 0
           /\ th[t].results = <<>>

\* the results of call r that report a new ledger row
CreatedResults(r) == {i \in 1..Len(r.results) : r.results[i].created}

\* C32: only tokenize touches the ledger: a match of a rule with another
\* action (replace, anagram, obfuscate, unknown) is applied without a new
\* row and reports created = false; every step of a sanitize call that
\* raises tokens_created adds exactly one row and every new row is counted,
\* so tokens_created of a call running alone is the number of rows it added.
C32_OnlyTokenizeInserts ==
  /\ [](\A t \in Threads :
          th[t].op = "sanitize" =>
            /\ th[t].tokens_created = Cardinality(CreatedResults(th[t]))
            /\ \A i \in 1..Len(th[t].results) :
                 th[t].results[i].action # "tokenize" => ~th[t].results[i].created)
  /\ [][\A t \in Threads :
          (th[t].pc \in {"apply", "insert"} /\ th'[t] # th[t]) =>
            /\ ledger \subseteq ledger'
            /\ Cardinality(ledger' \ ledger) =
                 th'[t].tokens_created - th[t].tokens_created
            /\ \A x \in ledger' \ ledger : x.session_id = th[t].session
            /\ th[t].selected[th[t].k].rule.action # "tokenize" => ledger' = ledger]_vars
  /\ [][ledger' # ledger => \E t \in Threads : th[t].pc = "insert"]_vars

\* a call that applied a match of a rule that is not tokenize and created a
\* token for another match has returned
C32_Witness ==
  /\ th["t1"].op = "sanitize" /\ th["t1"].pc = "done"
  /\ \E i, j \in 1..Len(th["t1"].results) :
       /\ th["t1"].results[i].action # "tokenize"
       /\ th["t1"].results[i].value # <<>>
       /\ th["t1"].results[j].created
  /\ th["t1"].tokens_created = 1
  /\ Cardinality(ledger) = 1

\* C33: every candidate the match finder gives for the text of a sanitize
\* call and every match the resolver accepts has start < end, so an empty
\* match is never accepted nor counted in transformations.
\* It fails for a pattern that matches the empty text: every match of
\* re.finditer is kept, the empty ones too.
C33_NoEmptyMatch ==
  \A t \in Threads :
    (th[t].op = "sanitize" /\ th[t].pc # "failed") =>
      /\ \A c \in SeqToSet(CandidatesOf(th[t])) : c.start < c.end
      /\ \A i \in 1..Len(th[t].selected) :
           th[t].selected[i].start < th[t].selected[i].end

\* the terms of the names file of the disk the engine was built on, and the
\* terms of the list rule built from them
FileTerms(disk) == load_terms(disk.files, "lists/names.txt").terms
Reversed(term) == JoinReversed(split(term))
ManyWords(term) == Len(split(term)) >= 2

\* word stands in text at offset i, between whitespace or the ends of text
WordAt(text, word, i) ==
  /\ i + Len(word) <= Len(text)
  /\ Slice(text, i, i + Len(word)) = word
  /\ i = 0 \/ text[i] \in SpaceChars
  /\ i + Len(word) = Len(text) \/ text[i + Len(word) + 1] \in SpaceChars

\* the list of a rule declared with include_reversed_word_order: the terms
\* of the file first and in order, a term equal under case folding to the
\* reversed form of every term of two words or more, no two terms equal
\* under case folding
ExpandedList(disk) ==
  LET terms == FileTerms(disk)
      expanded == engine_state.rules[1].terms
  IN  /\ Len(expanded) >= Len(terms)
      /\ SubSeq(expanded, 1, Len(terms)) = terms
      /\ \A k \in 1..Len(terms) :
           ManyWords(terms[k]) =>
             \E j \in 1..Len(expanded) :
                casefold(expanded[j]) = casefold(Reversed(terms[k]))
      /\ \A i, j \in 1..Len(expanded) :
           casefold(expanded[i]) = casefold(expanded[j]) => i = j

\* the call of r replaced every reversed form of a name of the file that
\* stands in its text by a token
ReversedReplaced(disk, r) ==
  \A k \in 1..Len(FileTerms(disk)) : \A i \in 0..Len(r.text) :
    (ManyWords(FileTerms(disk)[k]) /\ WordAt(r.text, Reversed(FileTerms(disk)[k]), i)) =>
      \E n \in 1..Len(r.selected) :
         /\ r.selected[n].start = i
         /\ r.selected[n].end = i + Len(Reversed(FileTerms(disk)[k]))
         /\ MatchesGrammar(r.results[n].replacement)

\* C34: with include_reversed_word_order the list of the rule keeps the
\* terms of the file first and in order, holds the reversed form of every
\* term of two words or more and no two terms equal under case folding, and
\* a sanitize call replaces the reversed form of a listed name in its text
\* by a token.
\* The last part fails for a case-sensitive list that holds the reversed
\* form in another case: the form is held to be present and is not added.
C34_ReversedWordOrder ==
  \A disk \in NameDisks :
    engine_state = load_ruleset(disk).state =>
      /\ ExpandedList(disk)
      /\ (th["t1"].op = "sanitize" /\ th["t1"].pc = "done") =>
           ReversedReplaced(disk, th["t1"])

\* C35: a token sanitize has just returned can be restored. A reconcile
\* called in the same session right after a sanitize call returned restores
\* every token the call got from get_or_create for a category outside
\* never_reconcile, whether the call created the row or found it: the token
\* is not left in the text and not listed in missing.
\* It fails for a row that has expired: get_or_create returns its token
\* again, and reconcile holds the token to be missing.
C35_ReturnedIsRestorable ==
  \A t \in Threads :
    (th[t].op = "reconcile" /\ th[t].pc = "done" /\ th[t].rt) =>
      \A i \in 1..Len(th[t].results) :
        LET token == th[t].results[i].replacement
        IN  (th[t].results[i].action = "tokenize" /\ ~Never(TokenCategory(token))) =>
              /\ token \notin SeqToSet(th[t].missing)
              /\ CountOccurrences(th[t].reconciled, token, 0) = 0

\* the rows of the session whose token a rule of a held-back category made
HeldRows(session_id) ==
  {row \in RowsOf(ledger, session_id) :
     \E i \in 1..Len(engine_state.rules) :
        /\ engine_state.rules[i].action = "tokenize"
        /\ Never(engine_state.rules[i].category)
        /\ row.category = normalize_category(engine_state.rules[i].category)}

\* C36: the tokens of a tokenize rule whose declared category the ruleset
\* lists in never_reconcile_categories are never restored: in every state of
\* a reconcile call such a token occurs in the restored text as often as in
\* the input and its value is not among the decoded values, whatever
\* characters the declared category has.
\* It fails for a category that _normalize_category changes (A-B, A B): the
\* token carries A_B, which the set does not hold.
C36_DeclaredNeverHeld ==
  \A t \in Threads :
    th[t].op = "reconcile" =>
      \A row \in HeldRows(th[t].session) :
        /\ CountOccurrences(th[t].reconciled, row.token, 0)
             = CountOccurrences(th[t].rtext, row.token, 0)
        /\ decrypt_value(row.original_value_enc) \notin SeqToSet(th[t].decoded_values)

\* C37: session isolation. A reconcile call on a session restores a token
\* only to the value the ledger holds for it under that session, and lists
\* as missing a token that only another session has; a sanitize call gets
\* from get_or_create only tokens of rows of its own session, and every
\* step that changes the ledger adds one row to the session of the call that
\* takes it and leaves the rows of every other session as they are.
C37_SessionIsolation ==
  /\ [](\A t \in Threads :
          /\ (th[t].op = "reconcile" /\ th[t].pc = "done" /\ th[t].fresh) =>
               /\ \A v \in SeqToSet(th[t].decoded_values) :
                    \E row \in RowsOf(ledger, th[t].session) :
                       /\ decrypt_value(row.original_value_enc) = v
                       /\ row.token \in TokensOf(th[t].rtext)
               /\ \A x \in TokensOf(th[t].rtext) :
                    (~Never(TokenCategory(x)) /\ \A row \in RowsOf(ledger, th[t].session) : row.token # x)
                      => /\ x \in SeqToSet(th[t].missing)
                         /\ CountOccurrences(th[t].reconciled, x, 0)
                              = CountOccurrences(th[t].rtext, x, 0)
          /\ th[t].op = "sanitize" =>
               \A i \in 1..Len(th[t].results) :
                  th[t].results[i].action = "tokenize" =>
                    \E row \in RowsOf(ledger, th[t].session) :
                       /\ row.token = th[t].results[i].replacement
                       /\ row.value_hash = ValueHash(row.category, th[t].results[i].value))
  /\ [][\A x \in ApiSessions :
          RowsOf(ledger', x) # RowsOf(ledger, x) =>
            /\ RowsOf(ledger, x) \subseteq RowsOf(ledger', x)
            /\ \E t \in Threads : th[t].pc = "insert" /\ th[t].session = x]_vars

\* a reconcile on session s2 has restored a token to the value of s2 while
\* session s1 holds another value under the same token
C37_Witness ==
  /\ th["t1"].op = "reconcile" /\ th["t1"].pc = "done" /\ th["t1"].fresh
  /\ th["t1"].session = "s2"
  /\ th["t1"].rtext = <<"x"," ">> \o B1
  /\ th["t1"].reconciled = <<"x"," ","c","d">>
  /\ \E row \in RowsOf(ledger, "s1") :
       row.token = B1 /\ decrypt_value(row.original_value_enc) = <<"a","b">>

\* the tokens of its text that the reconcile call of r held back: left
\* where they stand and not listed in missing
HeldBackBy(r) ==
  {x \in TokensOf(r.rtext) :
     /\ x \notin SeqToSet(r.missing)
     /\ CountOccurrences(r.reconciled, x, 0) = CountOccurrences(r.rtext, x, 0)}

\* the never_reconcile sets in force at some time of the calls so far
PoliciesSeen ==
  {engine_state.never_reconcile_categories} \cup
  (IF loaded.op = "reload" THEN {loaded.before.never_reconcile_categories} ELSE {})

\* C38: a reconcile call judges every token of its text against one
\* never_reconcile set: there is a set that was in force during the call
\* such that the call held back exactly the tokens whose category is in it.
\* It fails: the loop reads self._state for each token, and a reload between
\* two tokens gives the first the old set and the second the new one.
C38_OnePolicy ==
  (th["t1"].op = "reconcile" /\ th["t1"].pc = "done") =>
    \E never \in PoliciesSeen :
       \A x \in TokensOf(th["t1"].rtext) :
          x \in HeldBackBy(th["t1"]) <=> NeverReconcile(TokenCategory(x), never)

\* C39: a deleted session leaves nothing. Once delete_session(s) has
\* returned the store holds no token mapping and no message of s, also when
\* a chat turn on s was in progress while the delete ran.
\* It fails: the turn has read the session before the delete and writes its
\* mapping and its messages after it, and nothing refuses the rows.
C39_NoOrphanRows ==
  \A x \in chat.deleted :
    /\ RowsOf(ledger, x) = {}
    /\ SessionRows(chat.messages, x) = <<>>

\* C40: a turn that fails at the provider leaves the store as it was. When
\* the first turn served ends with the error of the provider, the store is
\* as it was before the turn: no message and no token mapping, so the next
\* turn sends no prompt of the failed one.
\* It fails: the mappings are inserted by sanitize and the user message is
\* stored before the provider is called, and nothing removes them.
C40_FailedTurnLeavesNothing ==
  (chat.turn.pc = "provider_error" /\ chat.turns = 1) =>
    /\ chat.messages = <<>>
    /\ ledger = {}

====
